---- MODULE Spec2Model ----
(***************************************************************************)
(* The S3-compatible gateway of src/src/index.ts: the request handler     *)
(* (fetch), the bucket allow-list, the AWS Signature V4 verifier and the   *)
(* passthrough calls to the B2 backend, together with the response cache   *)
(* that test/s3.test.ts exercises.                                         *)
(*                                                                         *)
(* Strings are sequences of symbols.  A symbol is a TLA+ string that       *)
(* stands either for one character ("a", "/", "7") or for an indivisible   *)
(* literal of the wire format ("Signature=", "x-amz-date", "tb").  All     *)
(* string operations of the code (split, trim, substring, includes, the    *)
(* regular expressions, percent-encoding, join) work on these sequences.   *)
(***************************************************************************)
EXTENDS Integers, Sequences, FiniteSets, TLC

(***************************************************************************)
(* Symbols                                                                 *)
(***************************************************************************)

\* Every symbol of the model, in ASCII order of the text it stands for.
Alphabet ==
    << "\n", " ", "!", "%", "&", ",", "-", "/",
       "0", "1", "2", "3", "4", "5", "6", "7", "8", "9",
       ":", ";", "=",
       "A", "AWS4", "AWS4-HMAC-SHA256", "B", "C", "Credential=", "D", "DELETE",
       "F", "GET", "HEAD", "K", "OPTIONS", "PATCH", "POST", "PUT",
       "Signature=", "SignedHeaders=", "T", "UNSIGNED-PAYLOAD",
       "X-Amz-Algorithm", "X-Amz-Credential", "X-Amz-Date", "X-Amz-Expires",
       "X-Amz-Signature", "X-Amz-SignedHeaders", "Z",
       "a", "auto", "aws4_request", "b", "c", "d", "e", "eb", "f", "fb", "g", "h",
       "host", "k", "k1", "k2", "s3", "sk", "t", "tb",
       "x-amz-content-sha256", "x-amz-date", "z" >>

Symbols == {Alphabet[i] : i \in 1..Len(Alphabet)}

\* charCodeAt / TextEncoder: the code of a symbol is its rank in Alphabet.
Code == [s \in Symbols |-> CHOOSE i \in 1..Len(Alphabet) : Alphabet[i] = s]

HexChars == <<"0", "1", "2", "3", "4", "5", "6", "7", "8", "9", "a", "b", "c", "d", "e", "f">>

HexSet == {HexChars[i] : i \in 1..Len(HexChars)}

Whitespace == {" ", "\n"}

\* A value that is no string: null / undefined of the code.
Null == <<"\\null">>

\* x ?? d and x || d on strings.
OrElse(x, d) == IF x = Null THEN d ELSE x

OrIfEmpty(x, d) == IF x = Null \/ x = <<>> THEN d ELSE x

(***************************************************************************)
(* String operations                                                       *)
(***************************************************************************)

RECURSIVE JoinFirst(_, _, _)
\* The first n parts joined by sep.
JoinFirst(parts, sep, n) ==
    IF n = 0 THEN <<>>
    ELSE IF n = 1 THEN parts[1]
    ELSE JoinFirst(parts, sep, n - 1) \o sep \o parts[n]

\* Array.prototype.join
Join(parts, sep) == JoinFirst(parts, sep, Len(parts))

\* String.prototype.split on a one-symbol separator ("".split(s) is [""]):
\* the pieces between consecutive separators.
Split(str, sep) ==
    LET at == SelectSeq([i \in 1..Len(str) |-> i], LAMBDA i : str[i] = sep)
        cuts == <<0>> \o at \o <<Len(str) + 1>>
    IN [k \in 1..(Len(at) + 1) |-> SubSeq(str, cuts[k] + 1, cuts[k + 1] - 1)]

\* Array.prototype.filter((p) => p): drop the empty strings.
FilterNonEmpty(parts) == SelectSeq(parts, LAMBDA p : p # <<>>)

\* String.prototype.substring(0, n)
Substring0(str, n) == SubSeq(str, 1, IF Len(str) < n THEN Len(str) ELSE n)

\* String.prototype.includes for a one-symbol needle.
Includes(str, sym) == \E i \in 1..Len(str) : str[i] = sym

\* String.prototype.trim: from the first to the last non-blank symbol.
Trim(str) ==
    LET solid == {i \in 1..Len(str) : str[i] \notin Whitespace}
    IN IF solid = {} THEN <<>>
       ELSE SubSeq(str, CHOOSE i \in solid : \A j \in solid : i <= j,
                        CHOOSE i \in solid : \A j \in solid : i >= j)

\* The longest run of symbols of the class ok that starts at position i.
RunFrom(str, i, ok) ==
    LET stops == {j \in i..Len(str) : str[j] \notin ok}
    IN IF stops = {} THEN SubSeq(str, i, Len(str))
       ELSE SubSeq(str, i, (CHOOSE j \in stops : \A k \in stops : j <= k) - 1)

\* RegExp match of /tag(class+)/: the capture group of the leftmost match,
\* or Null when there is none.
MatchAfter(str, tag, ok) ==
    LET hits == {i \in 1..Len(str) : str[i] = tag /\ i < Len(str) /\ str[i + 1] \in ok}
    IN IF hits = {} THEN Null
       ELSE RunFrom(str, (CHOOSE i \in hits : \A j \in hits : i <= j) + 1, ok)

\* a < b on strings: lexicographic by code unit.
RECURSIVE StrLess(_, _)
StrLess(a, b) ==
    IF b = <<>> THEN FALSE
    ELSE IF a = <<>> THEN TRUE
    ELSE IF Code[Head(a)] < Code[Head(b)] THEN TRUE
    ELSE IF Code[Head(a)] > Code[Head(b)] THEN FALSE
    ELSE StrLess(Tail(a), Tail(b))

(***************************************************************************)
(* Crypto primitives (index.ts 373-388)                                    *)
(*                                                                         *)
(* SHA-256 is modelled by a polynomial digest of DigestBytes bytes over    *)
(* the codes of the input, HMAC by the digest of key, separator, message.  *)
(* The hex conversion is the code's.                                       *)
(***************************************************************************)

HashBase == 257

HashModulus == 65521

DigestBytes == 2

\* (a * b) % HashModulus without leaving 32-bit integers.
MulMod(a, b) ==
    (((a * (b \div 256)) % HashModulus) * 256 + a * (b % 256)) % HashModulus

RECURSIVE PowMod(_)
\* HashBase ^ e modulo HashModulus.
PowMod(e) ==
    IF e = 0 THEN 1
    ELSE LET h == PowMod(e \div 2)
         IN MulMod(MulMod(h, h), IF e % 2 = 1 THEN HashBase ELSE 1)

RECURSIVE Poly(_, _, _)
\* The polynomial of bytes lo..hi in HashBase, by halves.
Poly(bytes, lo, hi) ==
    IF lo > hi THEN 0
    ELSE IF lo = hi THEN bytes[lo] + 1
    ELSE LET mid == (lo + hi) \div 2
         IN (MulMod(Poly(bytes, lo, mid), PowMod(hi - mid)) + Poly(bytes, mid + 1, hi)) % HashModulus

\* crypto.subtle.digest: a buffer of DigestBytes bytes that depends on every
\* byte of the input and on its length.
Digest(bytes) ==
    LET n == Len(bytes)
        d == (MulMod(n + 1, PowMod(n)) + Poly(bytes, 1, n)) % HashModulus
    IN [i \in 1..DigestBytes |-> (d \div (256 ^ (DigestBytes - i))) % 256]

\* new TextEncoder().encode(str)
TextEncode(str) == [i \in 1..Len(str) |-> Code[str[i]]]

\* b.toString(16).padStart(2, "0") for every byte, joined.
bufToHex(buf) ==
    Join([i \in 1..Len(buf) |-> <<HexChars[(buf[i] \div 16) + 1], HexChars[(buf[i] % 16) + 1]>>], <<>>)

\* sha256(data): hex of the digest of the encoded string.
sha256(data) == bufToHex(Digest(TextEncode(data)))

\* hmacSha256(key, data) with the key already a byte buffer (the caller
\* encodes a string key, as line 374 does).
hmacSha256(keyData, data) == Digest(keyData \o <<0>> \o TextEncode(data))

\* getSigningKey(secret, date, region, service)
getSigningKey(secret, date, region, service) ==
    LET kDate == hmacSha256(TextEncode(<<"AWS4">> \o secret), date)
        kRegion == hmacSha256(kDate, region)
        kService == hmacSha256(kRegion, service)
    IN hmacSha256(kService, <<"aws4_request">>)

(***************************************************************************)
(* Requests                                                                *)
(*                                                                         *)
(* A request is [method, url, headers, body].  url is what new URL() gives *)
(* the code: [protocol, hostname, port, pathname, searchParams], with      *)
(* searchParams the decoded (key, value) pairs in their order.  headers    *)
(* maps lower-case header names (one symbol each) to values.               *)
(***************************************************************************)

\* Headers.get(name): Null when the header is absent.
HeaderGet(headers, name) ==
    IF Len(name) = 1 /\ name[1] \in DOMAIN headers THEN headers[name[1]] ELSE Null

\* URLSearchParams.has
ParamHas(params, key) == \E i \in 1..Len(params) : params[i][1] = key

\* URLSearchParams.get: the first value of the key, or Null.
ParamGet(params, key) ==
    IF ParamHas(params, key)
    THEN params[CHOOSE i \in 1..Len(params) :
                    /\ params[i][1] = key
                    /\ \A j \in 1..(i - 1) : params[j][1] # key][2]
    ELSE Null

\* String.prototype.toLowerCase, symbol by symbol.
LowerSym(sym) ==
    CASE sym = "A" -> "a"
      [] sym = "B" -> "b"
      [] sym = "C" -> "c"
      [] sym = "D" -> "d"
      [] sym = "F" -> "f"
      [] sym = "K" -> "k"
      [] sym = "T" -> "t"
      [] sym = "Z" -> "z"
      [] OTHER -> sym

toLowerCase(str) == [i \in 1..Len(str) |-> LowerSym(str[i])]

(***************************************************************************)
(* encodeRFC3986 (index.ts 362-364)                                        *)
(***************************************************************************)

\* The characters of the alphabet that encodeURIComponent escapes (it leaves
\* letters, digits and - _ . ! ~ * ' ( ) alone).  The multi-character literals
\* are made of letters, digits, "-" and "_", except the three Authorization
\* field tags, which never occur in a URL.
UriEscaped == {"\n", " ", "%", "&", ",", "/", ":", ";", "="}

\* The characters the replace of line 363 escapes afterwards: ! ' ( ) *.
Rfc3986Extra == {"!"}

\* "%" followed by the two upper-case hex digits of the character's code.
PercentHex(sym) ==
    CASE sym = "\n" -> <<"%", "0", "A">>
      [] sym = " " -> <<"%", "2", "0">>
      [] sym = "!" -> <<"%", "2", "1">>
      [] sym = "%" -> <<"%", "2", "5">>
      [] sym = "&" -> <<"%", "2", "6">>
      [] sym = "," -> <<"%", "2", "C">>
      [] sym = "/" -> <<"%", "2", "F">>
      [] sym = ":" -> <<"%", "3", "A">>
      [] sym = ";" -> <<"%", "3", "B">>
      [] sym = "=" -> <<"%", "3", "D">>
      [] OTHER -> <<sym>>

\* encodeURIComponent
encodeURIComponent(str) ==
    Join([i \in 1..Len(str) |->
            IF str[i] \in UriEscaped THEN PercentHex(str[i]) ELSE <<str[i]>>], <<>>)

\* encodeRFC3986(str): encodeURIComponent, then !'()* escaped as well.
encodeRFC3986(str) ==
    LET enc == encodeURIComponent(str)
    IN Join([i \in 1..Len(enc) |->
                IF enc[i] \in Rfc3986Extra THEN PercentHex(enc[i]) ELSE <<enc[i]>>], <<>>)

(***************************************************************************)
(* createCanonicalRequest (index.ts 312-360)                               *)
(***************************************************************************)

RECURSIVE InsertByKey(_, _)
\* Insert pair after every element whose key is not greater: a stable sort.
InsertByKey(sorted, pair) ==
    IF sorted = <<>> THEN <<pair>>
    ELSE IF StrLess(pair[1], Head(sorted)[1]) THEN <<pair>> \o sorted
    ELSE <<Head(sorted)>> \o InsertByKey(Tail(sorted), pair)

RECURSIVE SortByKey(_)
\* Array.prototype.sort with the comparator of lines 320-324 (keys only).
SortByKey(params) ==
    IF params = <<>> THEN <<>>
    ELSE InsertByKey(SortByKey(SubSeq(params, 1, Len(params) - 1)), params[Len(params)])

\* Lines 318-326: the canonical query string.
CanonicalQuery(params) ==
    LET kept == SelectSeq(params, LAMBDA kv : kv[1] # <<"X-Amz-Signature">>)
        sorted == SortByKey(kept)
    IN Join([i \in 1..Len(sorted) |->
                encodeRFC3986(sorted[i][1]) \o <<"=">> \o encodeRFC3986(sorted[i][2])], <<"&">>)

\* Lines 328-335: the signed header names, in the caller's order.
SignedHeadersList(request, isQueryAuth) ==
    IF isQueryAuth
    THEN Split(OrElse(ParamGet(request.url.searchParams, <<"X-Amz-SignedHeaders">>), <<"host">>), ";")
    ELSE LET authHeader == OrElse(HeaderGet(request.headers, <<"authorization">>), <<>>)
             match == MatchAfter(authHeader, "SignedHeaders=", Symbols \ ({","} \cup Whitespace))
         IN IF match # Null THEN Split(match, ";") ELSE << <<"host">> >>

\* Lines 342-347: the host header is computed from the URL.
HostValue(url) ==
    IF /\ url.port # <<>>
       /\ ~ \/ (url.protocol = "https:" /\ url.port = <<"4", "4", "3">>)
            \/ (url.protocol = "http:" /\ url.port = <<"8", "0">>)
    THEN url.hostname \o <<":">> \o url.port
    ELSE url.hostname

\* Lines 337-354: one "name:value\n" per signed header.
CanonicalHeaders(request, list) ==
    Join([i \in 1..Len(list) |->
            LET headerName == toLowerCase(list[i])
                headerValue == IF headerName = <<"host">>
                               THEN HostValue(request.url)
                               ELSE LET v == HeaderGet(request.headers, headerName)
                                    IN IF v = Null THEN <<>> ELSE Trim(v)
            IN headerName \o <<":">> \o headerValue \o <<"\n">>], <<>>)

createCanonicalRequest(request, isQueryAuth) ==
    LET canonicalUri == OrIfEmpty(request.url.pathname, <<"/">>)
        params == CanonicalQuery(request.url.searchParams)
        signedHeadersList == SignedHeadersList(request, isQueryAuth)
        canonicalHeaders == CanonicalHeaders(request, signedHeadersList)
        signedHeaders == Join(signedHeadersList, <<";">>)
        payloadHash == OrElse(HeaderGet(request.headers, <<"x-amz-content-sha256">>), <<"UNSIGNED-PAYLOAD">>)
    IN Join(<< <<request.method>>, canonicalUri, params, canonicalHeaders, signedHeaders, payloadHash >>, <<"\n">>)

(***************************************************************************)
(* verifySignature (index.ts 266-310)                                      *)
(***************************************************************************)

\* Lines 272-278: the algorithm token.
AlgorithmOf(request, isQueryAuth) ==
    IF isQueryAuth
    THEN OrElse(ParamGet(request.url.searchParams, <<"X-Amz-Algorithm">>), <<>>)
    ELSE Split(OrElse(HeaderGet(request.headers, <<"authorization">>), <<>>), " ")[1]

\* Line 284: the timestamp.
DatetimeOf(request, isQueryAuth) ==
    OrElse(IF isQueryAuth
           THEN ParamGet(request.url.searchParams, <<"X-Amz-Date">>)
           ELSE HeaderGet(request.headers, <<"x-amz-date">>), <<>>)

\* Lines 300-307: the signature the caller supplied.
SuppliedSignature(request, isQueryAuth) ==
    IF isQueryAuth
    THEN OrElse(ParamGet(request.url.searchParams, <<"X-Amz-Signature">>), <<>>)
    ELSE LET authHeader == OrElse(HeaderGet(request.headers, <<"authorization">>), <<>>)
             match == MatchAfter(authHeader, "Signature=", HexSet)
         IN IF match # Null THEN match ELSE <<>>

\* Lines 288-298: the signature the gateway computes.
ComputedSignature(request, env, isQueryAuth, datetime) ==
    LET date == Substring0(datetime, 8)
        canonicalRequest == createCanonicalRequest(request, isQueryAuth)
        hashedCanonicalRequest == sha256(canonicalRequest)
        credentialScope == date \o <<"/">> \o env.REGION \o <<"/", "s3", "/", "aws4_request">>
        stringToSign == Join(<< <<"AWS4-HMAC-SHA256">>, datetime, credentialScope, hashedCanonicalRequest >>, <<"\n">>)
        signingKey == getSigningKey(env.SECRET_KEY, date, env.REGION, <<"s3">>)
    IN bufToHex(hmacSha256(signingKey, stringToSign))

\* A comparison that stops at the end of the supplied signature.
SignatureStartsWith(signatureHex, expectedSignature) ==
    /\ Len(expectedSignature) <= Len(signatureHex)
    /\ SubSeq(signatureHex, 1, Len(expectedSignature)) = expectedSignature

\* Line 309: the comparison.
SignatureEquals(signatureHex, expectedSignature) == signatureHex = expectedSignature

\* A verification that checks the algorithm and the timestamp and never
\* compares the signatures.
verifySignatureUncompared(request, env) ==
    LET isQueryAuth == ParamHas(request.url.searchParams, <<"X-Amz-Algorithm">>)
        algorithm == AlgorithmOf(request, isQueryAuth)
        datetime == DatetimeOf(request, isQueryAuth)
    IN ~(algorithm = <<>> \/ ~Includes(algorithm, "AWS4-HMAC-SHA256")) /\ datetime # <<>>

verifySignature(request, env) ==
    LET isQueryAuth == ParamHas(request.url.searchParams, <<"X-Amz-Algorithm">>)
        algorithm == AlgorithmOf(request, isQueryAuth)
        datetime == DatetimeOf(request, isQueryAuth)
    IN IF algorithm = <<>> \/ ~Includes(algorithm, "AWS4-HMAC-SHA256") THEN FALSE
       ELSE IF datetime = <<>> THEN FALSE
       ELSE SignatureEquals(ComputedSignature(request, env, isQueryAuth, datetime),
                            SuppliedSignature(request, isQueryAuth))

\* A verification that holds only on the day the request was signed.
VerifyOnTheDay(request, env, now) == now = 0 /\ verifySignature(request, env)

\* Line 27: the handler verifies the request it received on day `now`;
\* verifySignature is given the request and the configuration, and no clock.
VerifyAt(request, env, now) == verifySignature(request, env)

(***************************************************************************)
(* Configuration (Env, index.ts 138-147; the values of the tests' ENV)     *)
(***************************************************************************)

ENV ==
    [ ACCESS_KEY |-> <<"A", "K">>,
      SECRET_KEY |-> <<"sk">>,
      REGION |-> <<"auto">>,
      ALLOWED_BUCKETS |-> <<"tb", ",", "eb">> ]

(***************************************************************************)
(* The client: standard AWS Signature V4 request signing for S3, as the    *)
(* tests' AwsClient.sign does it.  The canonical form here is the          *)
(* signer's, written from the signing rules and not from the verifier.     *)
(***************************************************************************)

\* URI-encode: every character but the unreserved ones (letters, digits,
\* - _ . ~) is percent-encoded; "/" is kept in a path.
SigV4UriEncode(str, keepSlash) ==
    Join([i \in 1..Len(str) |->
            IF str[i] = "/" /\ keepSlash THEN <<"/">>
            ELSE IF str[i] \in UriEscaped \cup Rfc3986Extra THEN PercentHex(str[i])
            ELSE <<str[i]>>], <<>>)

RECURSIVE SigV4Insert(_, _)
\* Insert an encoded pair in order of key, then of value.
SigV4Insert(sorted, pair) ==
    IF sorted = <<>> THEN <<pair>>
    ELSE IF \/ StrLess(pair[1], Head(sorted)[1])
            \/ (pair[1] = Head(sorted)[1] /\ StrLess(pair[2], Head(sorted)[2]))
         THEN <<pair>> \o sorted
    ELSE <<Head(sorted)>> \o SigV4Insert(Tail(sorted), pair)

RECURSIVE SigV4Sort(_)
SigV4Sort(pairs) ==
    IF pairs = <<>> THEN <<>>
    ELSE SigV4Insert(SigV4Sort(Tail(pairs)), Head(pairs))

\* The signer's canonical query string: encoded pairs sorted by name, then value.
SigV4CanonicalQuery(params) ==
    LET enc == [i \in 1..Len(params) |->
                  <<SigV4UriEncode(params[i][1], FALSE), SigV4UriEncode(params[i][2], FALSE)>>]
        sorted == SigV4Sort(enc)
    IN Join([i \in 1..Len(sorted) |-> sorted[i][1] \o <<"=">> \o sorted[i][2]], <<"&">>)

\* The signer's canonical request for the signed header names `signed`
\* (lower case, sorted).
SigV4CanonicalRequest(method, url, params, headers, signed) ==
    Join(<< <<method>>,
            SigV4UriEncode(url.pathname, TRUE),
            SigV4CanonicalQuery(params),
            Join([i \in 1..Len(signed) |->
                    signed[i] \o <<":">>
                      \o (IF signed[i] = <<"host">> THEN url.hostname ELSE Trim(headers[signed[i][1]]))
                      \o <<"\n">>], <<>>),
            Join(signed, <<";">>),
            IF "x-amz-content-sha256" \in DOMAIN headers
            THEN headers["x-amz-content-sha256"] ELSE <<"UNSIGNED-PAYLOAD">> >>, <<"\n">>)

\* The signer's signature over a canonical request.
SigV4Signature(canonical, datetime, secret, region) ==
    LET date == SubSeq(datetime, 1, 8)
        scope == date \o <<"/">> \o region \o <<"/", "s3", "/", "aws4_request">>
        toSign == <<"AWS4-HMAC-SHA256", "\n">> \o datetime \o <<"\n">> \o scope \o <<"\n">> \o sha256(canonical)
        kDate == hmacSha256(TextEncode(<<"AWS4">> \o secret), date)
        kRegion == hmacSha256(kDate, region)
        kService == hmacSha256(kRegion, <<"s3">>)
        kSigning == hmacSha256(kService, <<"aws4_request">>)
    IN bufToHex(hmacSha256(kSigning, toSign))

\* The Credential value: access key and credential scope.
SigV4Credential(accessKey, datetime, region) ==
    accessKey \o <<"/">> \o SubSeq(datetime, 1, 8) \o <<"/">> \o region \o <<"/", "s3", "/", "aws4_request">>

\* aws4.sign(url, {method, headers}): header authentication.
SignHeader(method, url, headers, body, datetime, accessKey, secret, region) ==
    LET hs == headers @@ ("x-amz-date" :> datetime)
        signed == IF "x-amz-content-sha256" \in DOMAIN hs
                  THEN << <<"host">>, <<"x-amz-content-sha256">>, <<"x-amz-date">> >>
                  ELSE << <<"host">>, <<"x-amz-date">> >>
        canonical == SigV4CanonicalRequest(method, url, url.searchParams, hs, signed)
        auth == <<"AWS4-HMAC-SHA256", " ", "Credential=">>
                  \o SigV4Credential(accessKey, datetime, region)
                  \o <<",", " ", "SignedHeaders=">> \o Join(signed, <<";">>)
                  \o <<",", " ", "Signature=">> \o SigV4Signature(canonical, datetime, secret, region)
    IN [method |-> method, url |-> url, headers |-> hs @@ ("authorization" :> auth), body |-> body]

\* aws4.sign(url, {method, aws: {signQuery: true}}) and getSignedUrl: a presigned URL.
SignQuery(method, url, headers, body, datetime, accessKey, secret, region) ==
    LET params == url.searchParams
                    \o << << <<"X-Amz-Date">>, datetime >>,
                          << <<"X-Amz-Expires">>, <<"8", "6", "4", "0", "0">> >>,
                          << <<"X-Amz-Algorithm">>, <<"AWS4-HMAC-SHA256">> >>,
                          << <<"X-Amz-Credential">>, SigV4Credential(accessKey, datetime, region) >>,
                          << <<"X-Amz-SignedHeaders">>, <<"host">> >> >>
        canonical == SigV4CanonicalRequest(method, url, params, <<>>, << <<"host">> >>)
        signature == SigV4Signature(canonical, datetime, secret, region)
    IN [method |-> method,
        url |-> [url EXCEPT !.searchParams = params \o << << <<"X-Amz-Signature">>, signature >> >>],
        headers |-> headers, body |-> body]

(***************************************************************************)
(* The requests of the signature specification                            *)
(***************************************************************************)

\* The timestamp the clients sign with (x-amz-date format).
SignTime == <<"2", "0", "2", "6", "0", "1", "0", "8", "T", "0", "0", "0", "0", "0", "0", "Z">>

\* new URL("https://h" + path + "?" + query)
Url(pathname, searchParams) ==
    [protocol |-> "https:", hostname |-> <<"h">>, port |-> <<>>,
     pathname |-> pathname, searchParams |-> searchParams]

\* The paths the signed requests address: an object, an object whose key
\* holds "!", a bucket.
SigPaths ==
    { <<"/", "tb", "/", "k1">>, <<"/", "tb", "/", "k1", "!">>, <<"/", "tb">> }

\* The query strings they carry: none, one pair, one key twice with its values
\* in descending order.
SigQueries ==
    { <<>>,
      << << <<"b">>, <<"1">> >> >>,
      << << <<"a">>, <<"2">> >>, << <<"a">>, <<"1">> >> >> }

SigMethods == {"GET", "PUT"}

\* Every request of the bounds, signed by the client library with the
\* configured key and region, in the header or in the query string.
SignedRequests ==
    { SignHeader(m, Url(pa, q), ("x-amz-content-sha256" :> <<"UNSIGNED-PAYLOAD">>), Null,
                 SignTime, ENV.ACCESS_KEY, ENV.SECRET_KEY, ENV.REGION)
        : m \in SigMethods, pa \in SigPaths, q \in SigQueries }
    \cup
    { SignQuery(m, Url(pa, q), <<>>, Null,
                SignTime, ENV.ACCESS_KEY, ENV.SECRET_KEY, ENV.REGION)
        : m \in SigMethods, pa \in SigPaths, q \in SigQueries }

\* The days a signed request is followed for; a presigned URL is signed with
\* X-Amz-Expires of one day.
MaxClock == 2

\* The bytes a changed byte may become.
FlipChars == {"0", "1", "a", "f", "Z", "/"}

\* str with its i-th symbol replaced.
ReplaceAt(str, i, sym) == [str EXCEPT ![i] = sym]

\* The index of the first occurrence of sym in str (0 when there is none).
IndexOf(str, sym) ==
    IF Includes(str, sym)
    THEN CHOOSE i \in 1..Len(str) : str[i] = sym /\ \A j \in 1..(i - 1) : str[j] # sym
    ELSE 0

\* The index of the first pair of params whose key is key.
ParamIndex(params, key) ==
    CHOOSE i \in 1..Len(params) : params[i][1] = key /\ \A j \in 1..(i - 1) : params[j][1] # key

\* request with the i-th symbol of its header name replaced.
FlipHeader(request, name, i, sym) ==
    [request EXCEPT !.headers = [@ EXCEPT ![name] = ReplaceAt(@, i, sym)]]

\* request with the i-th symbol of the value of its query parameter key replaced.
FlipParam(request, key, i, sym) ==
    LET n == ParamIndex(request.url.searchParams, key)
    IN [request EXCEPT !.url.searchParams[n][2] = ReplaceAt(@, i, sym)]

\* Whether the request carries its signature in the query string.
IsPresigned(request) == ParamHas(request.url.searchParams, <<"X-Amz-Algorithm">>)

\* In the Authorization header: the positions of the signature, and of the
\* Credential value (from after "Credential=" to before the first ",").
AuthSignaturePositions(auth) == (IndexOf(auth, "Signature=") + 1)..Len(auth)
AuthCredentialPositions(auth) == (IndexOf(auth, "Credential=") + 1)..(IndexOf(auth, ",") - 1)

(***************************************************************************)
(* The gateway's routing (index.ts 9-136)                                  *)
(***************************************************************************)

\* Line 19: url.pathname.split("/").filter((p) => p)
PathParts(url) == FilterNonEmpty(Split(url.pathname, "/"))

\* Line 20: pathParts[0] || ""
BucketOf(url) == IF PathParts(url) = <<>> THEN <<>> ELSE PathParts(url)[1]

\* An object key that keeps the bucket: pathParts.join("/").
ObjectKeyWithBucket(url) ==
    IF PathParts(url) = <<>> THEN <<>> ELSE Join(PathParts(url), <<"/">>)

\* Line 21: pathParts.slice(1).join("/")
ObjectKeyOf(url) ==
    IF PathParts(url) = <<>> THEN <<>> ELSE Join(Tail(PathParts(url)), <<"/">>)

\* A bucket check that lets every bucket through.
isAllowedBucketOpen(bucket, env) == TRUE

\* A bucket check that keeps the blank entries of the list.
isAllowedBucketUnfiltered(bucket, env) ==
    IF env.ALLOWED_BUCKETS = Null \/ env.ALLOWED_BUCKETS = <<>> THEN FALSE
    ELSE LET pieces == Split(env.ALLOWED_BUCKETS, ",")
             allowedBuckets == [i \in 1..Len(pieces) |-> Trim(pieces[i])]
         IN \E i \in 1..Len(allowedBuckets) : allowedBuckets[i] = bucket

\* isAllowedBucket (index.ts 149-167): an unset or empty list denies all.
isAllowedBucket(bucket, env) ==
    IF env.ALLOWED_BUCKETS = Null \/ env.ALLOWED_BUCKETS = <<>> THEN FALSE
    ELSE LET pieces == Split(env.ALLOWED_BUCKETS, ",")
             allowedBuckets == FilterNonEmpty([i \in 1..Len(pieces) |-> Trim(pieces[i])])
         IN IF Len(allowedBuckets) = 0 THEN FALSE
            ELSE \E i \in 1..Len(allowedBuckets) : allowedBuckets[i] = bucket

\* new Response(body, {status, headers}): the body is a sequence of text
\* pieces (empty for null), the headers a set of <<name, value>> pairs.
Response(status, body, headers) == [status |-> status, body |-> body, headers |-> headers]

\* The value of a response header, or Null.
ResponseHeader(response, name) ==
    IF \E h \in response.headers : h[1] = name
    THEN (CHOOSE h \in response.headers : h[1] = name)[2]
    ELSE Null

(***************************************************************************)
(* The B2 bucket behind the gateway, and the calls to it (index.ts 173-260) *)
(*                                                                         *)
(* The bucket is a function from "bucket/key" to the stored object.  A     *)
(* call reaches B2 when `up` holds; otherwise B2 answers 500.              *)
(***************************************************************************)

\* `https://${endpoint}/${bucket}/${objectKey}`, without the endpoint.
B2Path(bucket, objectKey) == bucket \o <<"/">> \o objectKey

\* The Content-Length B2 reports for a body.
ContentLengthOf(body) ==
    CASE body = <<"one">> -> <<"3">>
      [] body = <<"three">> -> <<"5">>
      [] OTHER -> <<"0">>

\* The ETag B2 gives a body.
ETagOf(body) == <<"etag-">> \o body

\* B2's answer to client.fetch(url, {method, ...}): [status, headers, body]
\* and the bucket afterwards.
B2Fetch(objects, method, path, body, contentType, up) ==
    IF ~up THEN [response |-> Response(500, <<"InternalError">>, {}), objects |-> objects]
    ELSE IF method = "PUT"
    THEN [response |-> Response(200, <<>>, {<<"ETag", ETagOf(body)>>}),
          objects |-> [q \in DOMAIN objects \cup {path} |->
                         IF q = path THEN [body |-> body, contentType |-> contentType]
                         ELSE objects[q]]]
    ELSE IF path \notin DOMAIN objects
    THEN [response |-> Response(404, <<"NoSuchKey">>, {}), objects |-> objects]
    ELSE IF method = "DELETE"
    THEN [response |-> Response(204, <<>>, {}),
          objects |-> [q \in DOMAIN objects \ {path} |-> objects[q]]]
    ELSE [response |-> Response(200, IF method = "HEAD" THEN <<>> ELSE objects[path].body,
                                { <<"Content-Type", objects[path].contentType>>,
                                  <<"Content-Length", ContentLengthOf(objects[path].body)>>,
                                  <<"ETag", ETagOf(objects[path].body)>> }),
          objects |-> objects]

\* response.ok
Ok(response) == response.status >= 200 /\ response.status <= 299

\* The status of a response as the text of an error message.
StatusText(status) ==
    CASE status = 404 -> <<"4", "0", "4">>
      [] status = 500 -> <<"5", "0", "0">>
      [] OTHER -> <<"?">>

\* A not-found test that looks for the error code only.
IsNotFoundByCode(message) == Includes(message, "NoSuchKey")

\* error.message.includes("404") || error.message.includes("NoSuchKey")
IsNotFound(message) ==
    \/ \E i \in 1..(Len(message) - 2) : SubSeq(message, i, i + 2) = <<"4", "0", "4">>
    \/ Includes(message, "NoSuchKey")

\* What a call to B2 gives its caller: the error thrown (<<>> when none), the
\* value returned, the bucket afterwards and the number of fetches issued.
Outcome(error, value, objects, calls) ==
    [error |-> error, value |-> value, objects |-> objects, calls |-> calls]

\* uploadToB2 (index.ts 173-197)
uploadToB2(objects, bucket, objectKey, body, contentType, up) ==
    IF body = Null THEN Outcome(<<"Request body is required">>, Null, objects, 0)
    ELSE LET f == B2Fetch(objects, "PUT", B2Path(bucket, objectKey), body, contentType, up)
         IN IF ~Ok(f.response)
            THEN Outcome(<<"Upload failed: ">> \o StatusText(f.response.status) \o <<" ">> \o f.response.body,
                         Null, f.objects, 1)
            ELSE Outcome(<<>>, [etag |-> OrIfEmpty(ResponseHeader(f.response, "ETag"), Null)], f.objects, 1)

\* downloadFromB2 (index.ts 199-216)
downloadFromB2(objects, bucket, objectKey, up) ==
    LET f == B2Fetch(objects, "GET", B2Path(bucket, objectKey), Null, Null, up)
    IN IF ~Ok(f.response)
       THEN Outcome(<<"Download failed: ">> \o StatusText(f.response.status), Null, f.objects, 1)
       ELSE Outcome(<<>>,
                    [body |-> f.response.body,
                     contentType |-> OrIfEmpty(ResponseHeader(f.response, "Content-Type"), <<"application/octet-stream">>),
                     contentLength |-> OrIfEmpty(ResponseHeader(f.response, "Content-Length"), <<"0">>),
                     etag |-> OrIfEmpty(ResponseHeader(f.response, "ETag"), <<"\"\"">>)],
                    f.objects, 1)

\* deleteFromB2 (index.ts 218-228)
deleteFromB2(objects, bucket, objectKey, up) ==
    LET f == B2Fetch(objects, "DELETE", B2Path(bucket, objectKey), Null, Null, up)
    IN IF ~Ok(f.response)
       THEN Outcome(<<"Delete failed: ">> \o StatusText(f.response.status), Null, f.objects, 1)
       ELSE Outcome(<<>>, Null, f.objects, 1)

\* headB2Object (index.ts 230-246)
headB2Object(objects, bucket, objectKey, up) ==
    LET f == B2Fetch(objects, "HEAD", B2Path(bucket, objectKey), Null, Null, up)
    IN IF ~Ok(f.response)
       THEN Outcome(<<"HEAD failed: ">> \o StatusText(f.response.status), Null, f.objects, 1)
       ELSE Outcome(<<>>,
                    [contentType |-> OrIfEmpty(ResponseHeader(f.response, "Content-Type"), <<"application/octet-stream">>),
                     contentLength |-> OrIfEmpty(ResponseHeader(f.response, "Content-Length"), <<"0">>),
                     etag |-> OrIfEmpty(ResponseHeader(f.response, "ETag"), <<"\"\"">>)],
                    f.objects, 1)

\* The Contents element of B2's listing for the object stored at path q.
B2Contents(objects, q) ==
    <<"<Contents>", "<Key>", q[Len(q)], "</Key>", "<ETag>">> \o ETagOf(objects[q].body)
      \o <<"</ETag>", "<Size>">> \o ContentLengthOf(objects[q].body)
      \o <<"</Size>", "</Contents>">>

\* B2's listing of a bucket: a ListBucketResult with one Contents element for
\* each object it holds, in key order.
B2Listing(objects, bucket) ==
    LET held == SelectSeq(<< bucket \o <<"/", "k1">>, bucket \o <<"/", "k2">> >>,
                          LAMBDA q : q \in DOMAIN objects)
    IN <<"<ListBucketResult>", "<Name>">> \o bucket \o <<"</Name>">>
         \o Join([i \in 1..Len(held) |-> B2Contents(objects, held[i])], <<>>)
         \o <<"</ListBucketResult>">>

\* listB2Objects (index.ts 248-260): the text of B2's answer.
listB2Objects(objects, bucket, up) ==
    IF ~up THEN Outcome(<<"List failed: ">> \o StatusText(500), Null, objects, 1)
    ELSE Outcome(<<>>, B2Listing(objects, bucket), objects, 1)

(***************************************************************************)
(* The handler (index.ts 9-136)                                            *)
(*                                                                         *)
(* Route is the part that runs before any backend call: it answers the    *)
(* request or names the backend operation to perform.  Perform is that     *)
(* operation and the response built from its result.                       *)
(***************************************************************************)

\* The request is answered without a backend call.
Reply(response, steps) == [op |-> "reply", response |-> response, steps |-> steps]

\* The request goes on to the backend operation op.
Proceed(op, steps) == [op |-> op, response |-> Response(0, <<>>, {}), steps |-> steps]

\* A handler that has no branch for OPTIONS.
IsPreflightNever(method) == FALSE

\* Line 11: request.method === "OPTIONS"
IsPreflight(method) == method = "OPTIONS"

\* An upload branch that also takes PATCH.
IsUploadOrPatch(method) == method \in {"PUT", "POST", "PATCH"}

\* Line 42: method === "PUT" || method === "POST"
IsUpload(method) == method = "PUT" \/ method = "POST"

\* Lines 10-30 and the tests on method and key of lines 42-129.
Route(request, env) ==
    LET method == request.method
        bucket == BucketOf(request.url)
        objectKey == ObjectKeyOf(request.url)
    IN IF IsPreflight(method) THEN Reply(Response(204, <<>>, {}), <<>>)
       ELSE IF ~isAllowedBucket(bucket, env)
       THEN Reply(Response(403, <<"Access denied to this bucket">>, {}), <<"allow">>)
       ELSE IF ~verifySignature(request, env)
       THEN Reply(Response(403, <<"Invalid Signature">>, {}), <<"allow", "verify">>)
       ELSE IF IsUpload(method)
       THEN IF objectKey = <<>>
            THEN Reply(Response(400, <<"Object key required">>, {}), <<"allow", "verify">>)
            ELSE Proceed("upload", <<"allow", "verify">>)
       ELSE IF method = "GET"
       THEN IF objectKey = <<>> THEN Proceed("list", <<"allow", "verify">>)
            ELSE Proceed("download", <<"allow", "verify">>)
       ELSE IF method = "DELETE"
       THEN IF objectKey = <<>>
            THEN Reply(Response(400, <<"Object key required">>, {}), <<"allow", "verify">>)
            ELSE Proceed("delete", <<"allow", "verify">>)
       ELSE IF method = "HEAD"
       THEN IF objectKey = <<>>
            THEN Reply(Response(400, <<>>, {}), <<"allow", "verify">>)
            ELSE Proceed("head", <<"allow", "verify">>)
       ELSE Reply(Response(405, <<"Method not allowed">>, {}), <<"allow", "verify">>)

\* An outer catch that hides the message of the error.
CaughtWithoutMessage(outcome) == Response(500, <<"Internal Server Error">>, {})

\* Lines 130-134: the outer catch.
Caught(outcome) == Response(500, outcome.error, {})

\* JSON.stringify(result) for the result of uploadToB2.
Json(result) ==
    IF result.etag = Null THEN <<"{}">> ELSE <<"{\"etag\":\"">> \o result.etag \o <<"\"}">>

\* Lines 48-56: the upload and its response.
PerformUpload(request, objects, up) ==
    LET contentType == OrIfEmpty(HeaderGet(request.headers, <<"content-type">>), <<"application/octet-stream">>)
        result == uploadToB2(objects, BucketOf(request.url), ObjectKeyOf(request.url),
                             request.body, contentType, up)
    IN [outcome |-> result,
        response |-> IF result.error # <<>> THEN Caught(result)
                     ELSE Response(200, Json(result.value),
                                   { <<"Content-Type", <<"application/json">>>>,
                                     <<"ETag", OrIfEmpty(result.value.etag, <<>>)>> })]

\* A listing answered without its Content-Type.
PerformListUntyped(request, objects, up) ==
    LET files == listB2Objects(objects, BucketOf(request.url), up)
    IN [outcome |-> files,
        response |-> IF files.error # <<>> THEN Caught(files)
                     ELSE Response(200, files.value, {})]

\* Lines 60-66: the listing and its response.
PerformList(request, objects, up) ==
    LET files == listB2Objects(objects, BucketOf(request.url), up)
    IN [outcome |-> files,
        response |-> IF files.error # <<>> THEN Caught(files)
                     ELSE Response(200, files.value, {<<"Content-Type", <<"application/xml">>>>})]

\* Lines 69-87: the download and its response.
PerformDownload(request, objects, up) ==
    LET fileStream == downloadFromB2(objects, BucketOf(request.url), ObjectKeyOf(request.url), up)
    IN [outcome |-> fileStream,
        response |-> IF fileStream.error = <<>>
                     THEN Response(200, fileStream.value.body,
                                   { <<"Content-Type", fileStream.value.contentType>>,
                                     <<"Content-Length", fileStream.value.contentLength>>,
                                     <<"Cache-Control", <<"s-maxage=300, no-store">>>>,
                                     <<"ETag", fileStream.value.etag>> })
                     ELSE IF IsNotFound(fileStream.error) THEN Response(404, <<"NoSuchKey">>, {})
                     ELSE Caught(fileStream)]

\* Lines 94-103: the deletion and its response.
PerformDelete(request, objects, up) ==
    LET result == deleteFromB2(objects, BucketOf(request.url), ObjectKeyOf(request.url), up)
    IN [outcome |-> result,
        response |-> IF result.error = <<>> THEN Response(204, <<>>, {})
                     ELSE IF IsNotFound(result.error) THEN Response(404, <<>>, {})
                     ELSE Caught(result)]

\* Lines 110-127: the metadata read and its response.
PerformHead(request, objects, up) ==
    LET metadata == headB2Object(objects, BucketOf(request.url), ObjectKeyOf(request.url), up)
    IN [outcome |-> metadata,
        response |-> IF metadata.error = <<>>
                     THEN Response(200, <<>>,
                                   { <<"Content-Type", metadata.value.contentType>>,
                                     <<"Content-Length", metadata.value.contentLength>>,
                                     <<"ETag", metadata.value.etag>> })
                     ELSE IF IsNotFound(metadata.error) THEN Response(404, <<>>, {})
                     ELSE Caught(metadata)]

\* What B2 answered the call of the operation (status 0 when the gateway made
\* no call).
BackendAnswer(op, request, objects, up) ==
    LET path == B2Path(BucketOf(request.url), ObjectKeyOf(request.url))
    IN CASE op = "upload" ->
              IF request.body = Null THEN Response(0, <<>>, {})
              ELSE B2Fetch(objects, "PUT", path, request.body, <<>>, up).response
         [] op = "list" -> IF up THEN Response(200, B2Listing(objects, BucketOf(request.url)), {})
                           ELSE Response(500, <<"InternalError">>, {})
         [] op = "download" -> B2Fetch(objects, "GET", path, Null, Null, up).response
         [] op = "delete" -> B2Fetch(objects, "DELETE", path, Null, Null, up).response
         [] op = "head" -> B2Fetch(objects, "HEAD", path, Null, Null, up).response

\* The backend operation Route named.
Perform(op, request, objects, up) ==
    CASE op = "upload" -> PerformUpload(request, objects, up)
      [] op = "list" -> PerformList(request, objects, up)
      [] op = "download" -> PerformDownload(request, objects, up)
      [] op = "delete" -> PerformDelete(request, objects, up)
      [] op = "head" -> PerformHead(request, objects, up)

(***************************************************************************)
(* ResponseCache                                                           *)
(*                                                                         *)
(* The cache is a function from cache keys to stored responses.            *)
(***************************************************************************)

\* A cache key that keeps the query string of the request.
CacheKeyWithQuery(request) ==
    BucketOf(request.url) \o <<"/">> \o ObjectKeyOf(request.url)
      \o <<"?">> \o CanonicalQuery(request.url.searchParams)

\* The cache key of a request: its bucket and object key, nothing else.
CacheKey(request) == BucketOf(request.url) \o <<"/">> \o ObjectKeyOf(request.url)

\* lookup: whether the cache holds an entry for the request.
CacheHit(entries, request) == CacheKey(request) \in DOMAIN entries

\* The response to a GET or HEAD served from its cache entry: a HEAD gets the
\* stored headers without the body.
ServeCached(entries, request) ==
    LET entry == entries[CacheKey(request)]
    IN IF request.method = "HEAD" THEN Response(entry.status, <<>>, entry.headers) ELSE entry

\* A rule that stores the response of a GET of an object whatever its status.
CacheableWhateverStatus(op, response) == op = "download"

\* Only the successful response of a GET of an object is stored.
Cacheable(op, response) == op = "download" /\ Ok(response)

\* store: the cache with the response written under the key.
CacheStore(entries, key, response) ==
    [q \in DOMAIN entries \cup {key} |-> IF q = key THEN response ELSE entries[q]]

\* invalidate: the cache without the entry of the key.
CacheInvalidate(entries, key) == [q \in DOMAIN entries \ {key} |-> entries[q]]

(***************************************************************************)
(* The requests of the gateway specifications                             *)
(***************************************************************************)

\* A request without authentication.
Unsigned(method, url, headers, body) ==
    [method |-> method, url |-> url, headers |-> headers, body |-> body]

\* A header-signed request whose signature lost its last digit and got another.
Forged(request) ==
    LET auth == request.headers["authorization"]
    IN [request EXCEPT !.headers["authorization"] =
            ReplaceAt(auth, Len(auth), IF auth[Len(auth)] = "0" THEN "1" ELSE "0")]

\* The request a client sends: method, path and body, authenticated in the
\* way `auth` names.
ClientRequest(method, pathname, body, auth) ==
    LET plain == IF method \in {"PUT", "POST"}
                 THEN ("x-amz-content-sha256" :> <<"UNSIGNED-PAYLOAD">>)
                        @@ ("content-type" :> <<"text/plain">>)
                 ELSE ("x-amz-content-sha256" :> <<"UNSIGNED-PAYLOAD">>)
        signed == SignHeader(method, Url(pathname, <<>>), plain, body,
                             SignTime, ENV.ACCESS_KEY, ENV.SECRET_KEY, ENV.REGION)
    IN CASE auth = "header" -> signed
         [] auth = "query" -> SignQuery(method, Url(pathname, <<>>), plain, body,
                                        SignTime, ENV.ACCESS_KEY, ENV.SECRET_KEY, ENV.REGION)
         [] auth = "forged" -> Forged(signed)
         [] auth = "none" -> Unsigned(method, Url(pathname, <<>>), plain, body)

\* The body a client sends with a method.
BodyFor(method) == IF method \in {"PUT", "POST"} THEN <<"three">> ELSE Null

Methods == {"OPTIONS", "GET", "HEAD", "PUT", "POST", "DELETE", "PATCH"}

\* No bucket, a bucket off the allow-list, a bucket with and without a
\* trailing "/", two objects.
Paths ==
    { <<"/">>, <<"/", "fb", "/", "k1">>, <<"/", "tb">>, <<"/", "tb", "/">>,
      <<"/", "tb", "/", "k1">>, <<"/", "tb", "/", "k2">> }

AuthKinds == {"header", "query", "forged", "none"}

\* What a client sends: the request, how it authenticated it, and what the
\* handler decides for it before any backend call under the configuration ENV.
Sent(method, pathname, auth) ==
    LET r == ClientRequest(method, pathname, BodyFor(method), auth)
    IN [request |-> r, auth |-> auth, route |-> Route(r, ENV)]

\* A header-signed request sent without a body: request.body is null.
SentWithoutBody(method, pathname) ==
    LET r == ClientRequest(method, pathname, Null, "header")
    IN [request |-> r, auth |-> "header", route |-> Route(r, ENV)]

\* Every request of the bounds, and a PUT without a body.
AllRouted ==
    {Sent(m, pa, a) : m \in Methods, pa \in Paths, a \in AuthKinds}
      \cup {SentWithoutBody("PUT", <<"/", "tb", "/", "k2">>)}

\* The authenticated requests of the cache workload: reads of one object under
\* both kinds of authentication, its PUT and DELETE, and the PUT and GET of a
\* second object.
ObjectRouted ==
    { Sent(m, <<"/", "tb", "/", "k1">>, a) : m \in {"GET", "HEAD"}, a \in {"header", "query"} }
    \cup { Sent(m, <<"/", "tb", "/", "k1">>, "header") : m \in {"PUT", "DELETE"} }
    \cup { Sent(m, <<"/", "tb", "/", "k2">>, "header") : m \in {"PUT", "GET"} }

\* The values of ALLOWED_BUCKETS: unset, empty, empty and blank entries only,
\* and lists of buckets with an empty entry and with blanks.
Configs ==
    { Null, <<>>, <<",">>, <<" ", ",", " ">>,
      <<"tb", ",">>, <<" ", "tb", " ", ",", "eb">> }

\* Every request of the bounds with what the handler decides for it under
\* each value of ALLOWED_BUCKETS.
AllConfigured ==
    { [request |-> e.request, auth |-> e.auth, conf |-> c,
       route |-> Route(e.request, [ENV EXCEPT !.ALLOWED_BUCKETS = c])]
        : e \in AllRouted, c \in Configs }

\* The cache keys of the requests.
Keys == {CacheKey(e.request) : e \in AllRouted}

\* The bucket when the gateway starts: one object.
InitialObjects ==
    (<<"tb", "/", "k1">> :> [body |-> <<"one">>, contentType |-> <<"t">>])

(***************************************************************************)
(* State                                                                   *)
(***************************************************************************)

\* The number of requests handled at a time.
MaxProcs == 2

\* The number of requests the clients send in a run of Spec.
MaxRequests == 2

\* The number of requests the clients send in a run of SpecCache.
MaxObjectRequests == 4

\* The number of requests the clients send in a run of SpecAllow.
MaxConfigured == 2

Procs == 1..MaxProcs

VARIABLES
    budget,     \* how many more requests they send
    pc,         \* per handler: "idle", "invalidate", "fetch" or "done"
    req,        \* per handler: the request it handles
    auth,       \* per handler: how the client authenticated that request
    op,         \* per handler: the backend operation Route named
    resp,       \* per handler: the response it returned
    trace,      \* per handler: the steps it took, in order
    obs,        \* per handler: what held for its key when it looked the cache up
    objects,    \* the B2 bucket
    cache,      \* the response cache
    writes,     \* the background cache writes in flight
    age,        \* per cache entry: the version of the object it was read at
    epoch,      \* per key: the PUTs and DELETEs of it that passed authentication
    version,    \* per key: the PUTs and DELETEs of it that changed the bucket
    fresh,      \* per key: the responses of the GETs whose cache write completed
                \* and that no PUT or DELETE of the key followed
    owed,       \* per key: a PUT or DELETE completed and no GET started since
    back,       \* per handler: what B2 answered it and the error its call threw
    last,       \* per key: the last PUT or DELETE that succeeded, while no
                \* other PUT or DELETE of the key started since
    sbase,      \* signature specification: the request as the client signed it
    sreq,       \* the request handed to verifySignature
    skind,      \* what was changed in it since the client signed it
    sresult,    \* what verifySignature returned for it
    sclock,     \* the days that passed since the client signed it
    dbudget,    \* hierarchical backend: how many more requests the clients send
    dpc,        \* per handler: the step of resolvePath or of the operation it is at
    dreq,       \* per handler: the operation and the segments of its key
    dseg,       \* per handler: how many folders of the chain it has resolved
    dparent,    \* per handler: the ID of the last folder it resolved
    dfound,     \* per handler: the folder ID it is about to cache
    dresp,      \* per handler: the status it answered with
    dhist,      \* per handler: the folders it created, its searches and cache hits
    folders,    \* the folders of the backend: [id, name, parent]
    files,      \* the files of the backend: [id, name, parent]
    nextId,     \* the next ID the backend assigns
    fcache,     \* FolderResolutionCache: prefix of a key |-> folder ID
    primed,     \* the folder chains a completed PUT resolved
    overlap,    \* two handlers were at work at the same time
    evicted,    \* how many entries of the FolderResolutionCache expired
    conf        \* the value of ALLOWED_BUCKETS the gateway is deployed with

gatewayVars ==
    <<budget, pc, req, auth, op, resp, trace, obs, objects, cache, writes,
      age, epoch, version, fresh, owed, back, last>>

sigVars == <<sbase, sreq, skind, sresult, sclock>>

driveVars ==
    <<dbudget, dpc, dreq, dseg, dparent, dfound, dresp, dhist, folders, files,
      nextId, fcache, primed, overlap, evicted>>

vars ==
    <<budget, pc, req, auth, op, resp, trace, obs, objects, cache, writes,
      age, epoch, version, fresh, owed, back, last, sbase, sreq, skind, sresult, sclock,
      dbudget, dpc, dreq, dseg, dparent, dfound, dresp, dhist, folders, files,
      nextId, fcache, primed, overlap, evicted, conf>>

\* The handler-side state before any request.
NoRequest == Unsigned("NONE", Url(<<"/">>, <<>>), <<>>, Null)

NoResponse == Response(0, <<>>, {})

\* No PUT or DELETE of a key is known to be the last one.
NoMutation == [kind |-> "none", body |-> <<>>, contentType |-> <<>>, afterPut |-> FALSE]

\* No call to B2 was made.
NoBackend == [status |-> 0, error |-> <<>>]

NoObs == [looked |-> FALSE, key |-> <<>>, hit |-> FALSE, fresh |-> {}, owed |-> FALSE,
          stale |-> FALSE, quiet |-> FALSE, epoch |-> 0, last |-> NoMutation]

\* The gateway at rest, with the clients about to send `count` requests.
GatewayInit(count) ==
    /\ budget = count
    /\ pc = [p \in Procs |-> "idle"]
    /\ req = [p \in Procs |-> NoRequest]
    /\ auth = [p \in Procs |-> "none"]
    /\ op = [p \in Procs |-> "reply"]
    /\ resp = [p \in Procs |-> NoResponse]
    /\ trace = [p \in Procs |-> <<>>]
    /\ obs = [p \in Procs |-> NoObs]
    /\ objects = InitialObjects
    /\ writes = {}
    /\ epoch = [k \in Keys |-> 0]
    /\ version = [k \in Keys |-> 0]
    /\ fresh = [k \in Keys |-> {}]
    /\ owed = [k \in Keys |-> FALSE]
    /\ back = [p \in Procs |-> NoBackend]
    /\ last = [k \in Keys |-> NoMutation]

\* The cache of a gateway that served nothing yet.
CacheEmpty == cache = <<>> /\ age = <<>>

\* The cache when the gateway starts: empty, or holding the entry an earlier
\* deployment, whose allow-list held the bucket fb, stored for fb/k1.
CacheLeft ==
    /\ cache \in { <<>>,
                   (<<"fb", "/", "k1">> :>
                      Response(200, <<"old">>, {<<"Content-Type", <<"t">>>>})) }
    /\ age = [k \in DOMAIN cache |-> 0]

\* The signature specification's variables when it is not run.
SigIdle ==
    /\ sbase = NoRequest
    /\ sreq = NoRequest
    /\ skind = "none"
    /\ sresult = FALSE
    /\ sclock = 0

(***************************************************************************)
(* HierarchicalBackend and FolderResolutionCache                           *)
(*                                                                         *)
(* The backend holds folders and files, each with an ID it assigned, a     *)
(* name and the ID of its parent.  A key is a sequence of segments: the    *)
(* bucket, the folders, the leaf.  resolvePath walks the folders from the  *)
(* root, one cache read, one backend search, one folder creation and one   *)
(* cache write at a time.                                                  *)
(***************************************************************************)

\* The parent of the folders that have none.
RootSentinel == 0

\* The ID of the bucket folder the backend starts with.
BucketFolderId == 1

\* The folders of a key: its segments without the leaf.
FolderChain(segments) == SubSeq(segments, 1, Len(segments) - 1)

\* The leaf of a key.
LeafName(segments) == segments[Len(segments)]

\* The FolderResolutionCache key of the n-th folder of a key: the bucket and
\* the chain of segments up to and including that folder.
FolderCacheKey(segments, n) == SubSeq(segments, 1, n)

\* The backend's search for a folder or file by exact name under a parent.
FindByName(nodes, name, parent) == {f \in nodes : f.name = name /\ f.parent = parent}

\* A folder creation that does nothing when the parent already has a folder
\* of that name.
CreateFolderIfAbsent(nodes, id, name, parent) ==
    IF FindByName(nodes, name, parent) # {} THEN nodes
    ELSE nodes \cup {[id |-> id, name |-> name, parent |-> parent]}

\* The backend's create-folder call: a new folder under the parent.
CreateFolder(nodes, id, name, parent) ==
    nodes \cup {[id |-> id, name |-> name, parent |-> parent]}

\* A cache write that is lost.
FolderCachePutLost(entries, key, id) == entries

\* FolderResolutionCache put.
FolderCachePut(entries, key, id) ==
    [q \in DOMAIN entries \cup {key} |-> IF q = key THEN id ELSE entries[q]]

\* A resolution that creates the missing folders for every operation.
CreateIfMissingAlways(method) == TRUE

\* put resolves with createIfMissing = true; get, head, delete and list with
\* false.
CreateIfMissing(method) == method = "PUT"

\* The operations of the hierarchical specification: the PUT of two sibling
\* keys under a/b/c, the GET, HEAD and DELETE of one of them, and the listing
\* (the empty key) of the bucket that has a folder and of one that has none.
FolderRequests ==
    { [method |-> "PUT", segments |-> <<"tb", "a", "b", "c", "f1">>],
      [method |-> "PUT", segments |-> <<"tb", "a", "b", "c", "f2">>],
      [method |-> "GET", segments |-> <<"tb", "a", "b", "c", "f1">>],
      [method |-> "HEAD", segments |-> <<"tb", "a", "b", "c", "f1">>],
      [method |-> "DELETE", segments |-> <<"tb", "a", "b", "c", "f1">>],
      [method |-> "LIST", segments |-> <<"tb", "">>],
      [method |-> "LIST", segments |-> <<"eb", "">>] }

\* The number of operations the clients send in a run of SpecFolders.
MaxFolderRequests == 2

\* The number of cache entries that expire in a run of SpecFolders.
MaxExpiries == 1

NoFolderRequest == [method |-> "NONE", segments |-> <<>>]

NoHistory ==
    [created |-> <<>>, parents |-> <<>>, searches |-> 0, hits |-> 0,
     primed |-> FALSE, bare |-> FALSE, fileParent |-> RootSentinel, listing |-> {}]

\* The hierarchical backend with its bucket folder, an empty cache, and the
\* clients about to send `count` operations.
DriveInit(count) ==
    /\ dbudget = count
    /\ dpc = [p \in Procs |-> "idle"]
    /\ dreq = [p \in Procs |-> NoFolderRequest]
    /\ dseg = [p \in Procs |-> 0]
    /\ dparent = [p \in Procs |-> RootSentinel]
    /\ dfound = [p \in Procs |-> RootSentinel]
    /\ dresp = [p \in Procs |-> 0]
    /\ dhist = [p \in Procs |-> NoHistory]
    /\ folders = {[id |-> BucketFolderId, name |-> "tb", parent |-> RootSentinel]}
    /\ files = {}
    /\ nextId = BucketFolderId + 1
    /\ fcache = <<>>
    /\ primed = {}
    /\ overlap = FALSE
    /\ evicted = 0

\* Where a handler goes once it resolved n folders of its key.
AfterFolder(request, n) ==
    IF n < Len(FolderChain(request.segments)) THEN "lookup"
    ELSE IF request.method = "PUT" THEN "initiate" ELSE "find"

\* Handler p takes an operation.
FolderStart(p, r) ==
    /\ dpc[p] \in {"idle", "done"}
    /\ dbudget > 0
    /\ dbudget' = dbudget - 1
    /\ dreq' = [dreq EXCEPT ![p] = r]
    /\ dseg' = [dseg EXCEPT ![p] = 0]
    /\ dparent' = [dparent EXCEPT ![p] = RootSentinel]
    /\ dfound' = [dfound EXCEPT ![p] = RootSentinel]
    /\ dresp' = [dresp EXCEPT ![p] = 0]
    /\ dhist' = [dhist EXCEPT ![p] =
                   [NoHistory EXCEPT !.primed = FolderChain(r.segments) \in primed,
                                     !.bare = Cardinality(folders) = 1]]
    /\ dpc' = [dpc EXCEPT ![p] = "lookup"]
    /\ overlap' = (overlap \/ \E q \in Procs \ {p} : dpc[q] \notin {"idle", "done"})
    /\ UNCHANGED <<folders, files, nextId, fcache, primed, evicted, gatewayVars, sigVars, conf>>

\* resolvePath: the cache read for the next folder.
FolderLookup(p) ==
    /\ dpc[p] = "lookup"
    /\ LET key == FolderCacheKey(dreq[p].segments, dseg[p] + 1)
       IN IF key \in DOMAIN fcache
          THEN /\ dparent' = [dparent EXCEPT ![p] = fcache[key]]
               /\ dseg' = [dseg EXCEPT ![p] = @ + 1]
               /\ dhist' = [dhist EXCEPT ![p].hits = @ + 1]
               /\ dpc' = [dpc EXCEPT ![p] = AfterFolder(dreq[p], dseg[p] + 1)]
          ELSE /\ dpc' = [dpc EXCEPT ![p] = "search"]
               /\ UNCHANGED <<dparent, dseg, dhist>>
    /\ UNCHANGED <<dbudget, dreq, dfound, dresp, folders, files, nextId, fcache,
                   primed, overlap, evicted, gatewayVars, sigVars, conf>>

\* resolvePath: on a cache miss, the backend search for the folder by name
\* under the resolved parent; without a match the folder is to be created, or
\* the operation ends not-found.
FolderSearch(p) ==
    /\ dpc[p] = "search"
    /\ LET name == dreq[p].segments[dseg[p] + 1]
           matches == FindByName(folders, name, dparent[p])
       IN /\ dhist' = [dhist EXCEPT ![p].searches = @ + 1]
          /\ IF matches # {}
             THEN /\ \E f \in matches : dfound' = [dfound EXCEPT ![p] = f.id]
                  /\ dpc' = [dpc EXCEPT ![p] = "store"]
                  /\ UNCHANGED dresp
             ELSE IF CreateIfMissing(dreq[p].method)
             THEN /\ dpc' = [dpc EXCEPT ![p] = "create"]
                  /\ UNCHANGED <<dfound, dresp>>
             ELSE /\ dpc' = [dpc EXCEPT ![p] = "done"]
                  /\ dresp' = [dresp EXCEPT ![p] =
                                 IF dreq[p].method = "LIST" THEN 200 ELSE 404]
                  /\ UNCHANGED dfound
    /\ UNCHANGED <<dbudget, dreq, dseg, dparent, folders, files, nextId, fcache,
                   primed, overlap, evicted, gatewayVars, sigVars, conf>>

\* resolvePath: the folder is created under the resolved parent; the backend
\* answers with the ID of the folder.
FolderCreate(p) ==
    /\ dpc[p] = "create"
    /\ LET name == dreq[p].segments[dseg[p] + 1]
           made == CreateFolder(folders, nextId, name, dparent[p])
       IN /\ folders' = made
          /\ dfound' = [dfound EXCEPT ![p] =
                          IF made = folders
                          THEN (CHOOSE f \in FindByName(folders, name, dparent[p]) : TRUE).id
                          ELSE nextId]
          /\ dhist' = [dhist EXCEPT ![p].created = Append(@, name),
                                    ![p].parents = Append(@, dparent[p])]
    /\ nextId' = nextId + 1
    /\ dpc' = [dpc EXCEPT ![p] = "store"]
    /\ UNCHANGED <<dbudget, dreq, dseg, dparent, dresp, files, fcache,
                   primed, overlap, evicted, gatewayVars, sigVars, conf>>

\* resolvePath: the ID found or created is cached, and is the parent of the
\* next segment.
FolderStore(p) ==
    /\ dpc[p] = "store"
    /\ fcache' = FolderCachePut(fcache, FolderCacheKey(dreq[p].segments, dseg[p] + 1), dfound[p])
    /\ dparent' = [dparent EXCEPT ![p] = dfound[p]]
    /\ dseg' = [dseg EXCEPT ![p] = @ + 1]
    /\ dpc' = [dpc EXCEPT ![p] = AfterFolder(dreq[p], dseg[p] + 1)]
    /\ UNCHANGED <<dbudget, dreq, dfound, dresp, dhist, folders, files, nextId,
                   primed, overlap, evicted, gatewayVars, sigVars, conf>>

\* put: the upload session is initiated for (leaf, resolved parent); a
\* non-success answer of the backend fails the operation.
UploadInitiate(p, ok) ==
    /\ dpc[p] = "initiate"
    /\ dpc' = [dpc EXCEPT ![p] = IF ok THEN "transfer" ELSE "done"]
    /\ dresp' = [dresp EXCEPT ![p] = IF ok THEN @ ELSE 500]
    /\ UNCHANGED <<dbudget, dreq, dseg, dparent, dfound, dhist, folders, files, nextId,
                   fcache, primed, overlap, evicted, gatewayVars, sigVars, conf>>

\* put: the body is streamed into the session and the file exists under the
\* resolved parent; a non-success answer fails the operation.
UploadTransfer(p, ok) ==
    /\ dpc[p] = "transfer"
    /\ dpc' = [dpc EXCEPT ![p] = "done"]
    /\ IF ok
       THEN /\ files' = files \cup {[id |-> nextId, name |-> LeafName(dreq[p].segments),
                                     parent |-> dparent[p]]}
            /\ nextId' = nextId + 1
            /\ dresp' = [dresp EXCEPT ![p] = 200]
            /\ dhist' = [dhist EXCEPT ![p].fileParent = dparent[p]]
            /\ primed' = primed \cup {FolderChain(dreq[p].segments)}
       ELSE /\ dresp' = [dresp EXCEPT ![p] = 500]
            /\ UNCHANGED <<files, nextId, dhist, primed>>
    /\ UNCHANGED <<dbudget, dreq, dseg, dparent, dfound, folders, fcache,
                   overlap, evicted, gatewayVars, sigVars, conf>>

\* get, head, delete: the leaf is looked up by name under the resolved
\* parent, and delete removes the object found by its ID; list: the direct
\* children of the bucket folder are enumerated.
LeafFind(p) ==
    /\ dpc[p] = "find"
    /\ dpc' = [dpc EXCEPT ![p] = "done"]
    /\ LET matches == FindByName(files, LeafName(dreq[p].segments), dparent[p])
       IN IF dreq[p].method = "LIST"
          THEN /\ dresp' = [dresp EXCEPT ![p] = 200]
               /\ dhist' = [dhist EXCEPT ![p].listing =
                               {f.name : f \in {g \in files \cup folders : g.parent = dparent[p]}}]
               /\ UNCHANGED files
          ELSE IF matches = {}
          THEN /\ dresp' = [dresp EXCEPT ![p] = 404]
               /\ UNCHANGED <<dhist, files>>
          ELSE IF dreq[p].method = "DELETE"
          THEN /\ \E f \in matches : files' = files \ {f}
               /\ dresp' = [dresp EXCEPT ![p] = 204]
               /\ UNCHANGED dhist
          ELSE /\ dresp' = [dresp EXCEPT ![p] = 200]
               /\ UNCHANGED <<dhist, files>>
    /\ UNCHANGED <<dbudget, dreq, dseg, dparent, dfound, folders, nextId,
                   fcache, primed, overlap, evicted, gatewayVars, sigVars, conf>>

\* An entry of the FolderResolutionCache expires.
FolderCacheExpire(key) ==
    /\ key \in DOMAIN fcache
    /\ evicted < MaxExpiries
    /\ fcache' = [q \in DOMAIN fcache \ {key} |-> fcache[q]]
    /\ evicted' = evicted + 1
    /\ UNCHANGED <<dbudget, dpc, dreq, dseg, dparent, dfound, dresp, dhist, folders,
                   files, nextId, primed, overlap, gatewayVars, sigVars, conf>>

InitFolders ==
    /\ GatewayInit(0) /\ CacheEmpty /\ SigIdle /\ DriveInit(MaxFolderRequests)
    /\ conf = ENV.ALLOWED_BUCKETS

NextFolders ==
    \/ \E p \in Procs, r \in FolderRequests : FolderStart(p, r)
    \/ \E p \in Procs : FolderLookup(p)
    \/ \E p \in Procs : FolderSearch(p)
    \/ \E p \in Procs : FolderCreate(p)
    \/ \E p \in Procs : FolderStore(p)
    \/ \E p \in Procs, ok \in BOOLEAN : UploadInitiate(p, ok)
    \/ \E p \in Procs, ok \in BOOLEAN : UploadTransfer(p, ok)
    \/ \E p \in Procs : LeafFind(p)
    \/ \E key \in DOMAIN fcache : FolderCacheExpire(key)

SpecFolders == InitFolders /\ [][NextFolders]_vars

(***************************************************************************)
(* The gateway specifications                                              *)
(*                                                                         *)
(* A handler takes a request (Start), and either answers at once or goes   *)
(* on: a PUT or DELETE drops the cache entry of its key (Invalidate), then *)
(* every operation calls B2 and answers (Fetch).  The cache write of a     *)
(* fetched GET runs in the background after the response (CacheWrite), and *)
(* is lost when its worker is torn down first (CacheWriteDropped).         *)
(***************************************************************************)

\* Whether a PUT or DELETE of key k is under way.
Mutating(k) ==
    \E q \in Procs : /\ pc[q] \in {"invalidate", "fetch"}
                     /\ op[q] \in {"upload", "delete"}
                     /\ CacheKey(req[q]) = k

\* What holds for the key of request r when its handler looks the cache up.
Observe(r) ==
    LET k == CacheKey(r)
        hit == CacheHit(cache, r)
    IN [looked |-> TRUE, key |-> k, hit |-> hit, fresh |-> fresh[k], owed |-> owed[k],
        stale |-> hit /\ age[k] < version[k],
        quiet |-> \A w \in writes : w.key # k,
        epoch |-> IF Mutating(k) THEN -1 ELSE epoch[k],
        last |-> IF Mutating(k) THEN NoMutation ELSE last[k]]

\* Handler p takes the request of e and runs up to its first cache or
\* backend call.
Start(p, e) ==
    /\ pc[p] \in {"idle", "done"}
    /\ budget > 0
    /\ budget' = budget - 1
    /\ req' = [req EXCEPT ![p] = e.request]
    /\ auth' = [auth EXCEPT ![p] = e.auth]
    /\ op' = [op EXCEPT ![p] = e.route.op]
    /\ back' = [back EXCEPT ![p] = NoBackend]
    /\ LET route == e.route
           r == e.request
           k == CacheKey(r)
       IN CASE route.op = "reply" ->
                 /\ resp' = [resp EXCEPT ![p] = route.response]
                 /\ trace' = [trace EXCEPT ![p] = route.steps]
                 /\ pc' = [pc EXCEPT ![p] = "done"]
                 /\ obs' = [obs EXCEPT ![p] = [NoObs EXCEPT !.hit = CacheHit(cache, r)]]
                 /\ UNCHANGED <<epoch, fresh, owed, last>>
            [] route.op \in {"download", "head"} ->
                 /\ resp' = [resp EXCEPT ![p] =
                               IF CacheHit(cache, r) THEN ServeCached(cache, r) ELSE NoResponse]
                 /\ trace' = [trace EXCEPT ![p] = route.steps \o <<"lookup">>]
                 /\ pc' = [pc EXCEPT ![p] = IF CacheHit(cache, r) THEN "done" ELSE "fetch"]
                 /\ obs' = [obs EXCEPT ![p] = Observe(r)]
                 /\ owed' = IF route.op = "download" THEN [owed EXCEPT ![k] = FALSE] ELSE owed
                 /\ UNCHANGED <<epoch, fresh, last>>
            [] route.op \in {"upload", "delete"} ->
                 /\ resp' = [resp EXCEPT ![p] = NoResponse]
                 /\ trace' = [trace EXCEPT ![p] = route.steps]
                 /\ pc' = [pc EXCEPT ![p] = "invalidate"]
                 /\ obs' = [obs EXCEPT ![p] = NoObs]
                 /\ epoch' = [epoch EXCEPT ![k] = @ + 1]
                 /\ fresh' = [fresh EXCEPT ![k] = {}]
                 /\ last' = [last EXCEPT ![k] =
                               [NoMutation EXCEPT !.afterPut =
                                   route.op = "delete" /\ last[k].kind = "put"]]
                 /\ UNCHANGED owed
            [] route.op = "list" ->
                 /\ resp' = [resp EXCEPT ![p] = NoResponse]
                 /\ trace' = [trace EXCEPT ![p] = route.steps]
                 /\ pc' = [pc EXCEPT ![p] = "fetch"]
                 /\ obs' = [obs EXCEPT ![p] = NoObs]
                 /\ UNCHANGED <<epoch, fresh, owed, last>>
    /\ UNCHANGED <<objects, cache, writes, age, version, sigVars, driveVars, conf>>

\* The cache entry of the key of p's PUT or DELETE is dropped, before the
\* call to B2 completes.
Invalidate(p) ==
    /\ pc[p] = "invalidate"
    /\ cache' = CacheInvalidate(cache, CacheKey(req[p]))
    /\ age' = CacheInvalidate(age, CacheKey(req[p]))
    /\ trace' = [trace EXCEPT ![p] = @ \o <<"invalidate">>]
    /\ pc' = [pc EXCEPT ![p] = "fetch"]
    /\ UNCHANGED <<budget, req, auth, op, resp, obs, objects, writes,
                   epoch, version, fresh, owed, back, last, sigVars, driveVars, conf>>

\* Handler p calls B2 and answers; a fetched GET leaves its cache write to
\* the background.
Fetch(p, up) ==
    /\ pc[p] = "fetch"
    /\ \E done \in {Perform(op[p], req[p], objects, up)} :
       LET k == CacheKey(req[p])
           mutation == op[p] \in {"upload", "delete"}
       IN /\ objects' = done.outcome.objects
          /\ resp' = [resp EXCEPT ![p] = done.response]
          /\ trace' = [trace EXCEPT ![p] = @ \o [i \in 1..done.outcome.calls |-> "b2"]]
          /\ writes' = IF Cacheable(op[p], done.response)
                       THEN writes \cup {[key |-> k, path |-> req[p].url.pathname,
                                          response |-> done.response,
                                          epoch |-> obs[p].epoch, version |-> version[k]]}
                       ELSE writes
          /\ version' = IF mutation /\ done.outcome.error = <<>>
                        THEN [version EXCEPT ![k] = @ + 1] ELSE version
          /\ owed' = IF mutation THEN [owed EXCEPT ![k] = TRUE] ELSE owed
          /\ back' = [back EXCEPT ![p] =
                        [status |-> BackendAnswer(op[p], req[p], objects, up).status,
                         error |-> done.outcome.error]]
          /\ last' = IF mutation /\ done.outcome.error = <<>>
                     THEN [last EXCEPT ![k] =
                             [kind |-> IF op[p] = "upload" THEN "put" ELSE "delete",
                              body |-> IF op[p] = "upload" THEN objects'[k].body ELSE <<>>,
                              contentType |-> IF op[p] = "upload" THEN objects'[k].contentType ELSE <<>>,
                              afterPut |-> last[k].afterPut]]
                     ELSE last
          /\ obs' = [obs EXCEPT ![p].last = IF obs[p].epoch # epoch[k] THEN NoMutation ELSE @]
    /\ pc' = [pc EXCEPT ![p] = "done"]
    /\ UNCHANGED <<budget, req, auth, op, cache, age, epoch, fresh, sigVars, driveVars, conf>>

\* A background cache write completes.
CacheWrite(w) ==
    /\ w \in writes
    /\ writes' = writes \ {w}
    /\ cache' = CacheStore(cache, w.key, w.response)
    /\ age' = CacheStore(age, w.key, w.version)
    /\ fresh' = IF w.epoch = epoch[w.key]
                THEN [fresh EXCEPT ![w.key] = @ \cup {w.response}] ELSE fresh
    /\ UNCHANGED <<budget, pc, req, auth, op, resp, trace, obs, objects,
                   epoch, version, owed, back, last, sigVars, driveVars, conf>>

\* A background cache write is lost with its worker.
CacheWriteDropped(w) ==
    /\ w \in writes
    /\ writes' = writes \ {w}
    /\ UNCHANGED <<budget, pc, req, auth, op, resp, trace, obs, objects, cache,
                   age, epoch, version, fresh, owed, back, last, sigVars, driveVars, conf>>

\* The steps after Start.
Steps ==
    \/ \E p \in Procs : Invalidate(p)
    \/ \E p \in Procs, up \in BOOLEAN : Fetch(p, up)
    \/ \E w \in writes : CacheWrite(w)
    \/ \E w \in writes : CacheWriteDropped(w)

\* Every request of the bounds, MaxRequests of them.
Init ==
    GatewayInit(MaxRequests) /\ CacheLeft /\ SigIdle /\ DriveInit(0) /\ conf = ENV.ALLOWED_BUCKETS

Next == (\E p \in Procs, e \in AllRouted : Start(p, e)) \/ Steps

Spec == Init /\ [][Next]_vars

\* The authenticated reads and writes of two objects, MaxObjectRequests of them.
InitCache ==
    /\ GatewayInit(MaxObjectRequests) /\ CacheEmpty /\ SigIdle /\ DriveInit(0)
    /\ conf = ENV.ALLOWED_BUCKETS

NextCache == (\E p \in Procs, e \in ObjectRouted : Start(p, e)) \/ Steps

SpecCache == InitCache /\ [][NextCache]_vars

\* Every request of the bounds under every value of ALLOWED_BUCKETS,
\* MaxConfigured of them.
InitAllow ==
    /\ GatewayInit(MaxConfigured) /\ CacheEmpty /\ SigIdle /\ DriveInit(0)
    /\ conf \in Configs

NextAllow ==
    (\E p \in Procs, e \in AllConfigured : e.conf = conf /\ Start(p, e)) \/ Steps

SpecAllow == InitAllow /\ [][NextAllow]_vars

(***************************************************************************)
(* The signature specification: a client signs a request, one byte of it   *)
(* may change on the way, the gateway verifies it.                         *)
(***************************************************************************)

InitSig ==
    /\ GatewayInit(0)
    /\ CacheEmpty
    /\ conf = ENV.ALLOWED_BUCKETS
    /\ DriveInit(0)
    /\ sbase \in SignedRequests
    /\ sreq = sbase
    /\ skind = "signed"
    /\ sresult = VerifyAt(sreq, ENV, 0)
    /\ sclock = 0

\* One byte of the supplied signature changes.
TamperSignature ==
    /\ skind = "signed"
    /\ \E sym \in FlipChars :
         \/ /\ IsPresigned(sreq)
            /\ \E i \in 1..Len(ParamGet(sreq.url.searchParams, <<"X-Amz-Signature">>)) :
                 /\ ParamGet(sreq.url.searchParams, <<"X-Amz-Signature">>)[i] # sym
                 /\ sreq' = FlipParam(sreq, <<"X-Amz-Signature">>, i, sym)
         \/ /\ ~IsPresigned(sreq)
            /\ \E i \in AuthSignaturePositions(sreq.headers["authorization"]) :
                 /\ sreq.headers["authorization"][i] # sym
                 /\ sreq' = FlipHeader(sreq, "authorization", i, sym)
    /\ skind' = "signature"
    /\ sresult' = VerifyAt(sreq', ENV, sclock)
    /\ UNCHANGED <<sbase, sclock, gatewayVars, driveVars, conf>>

\* One byte of the timestamp changes.
TamperTimestamp ==
    /\ skind = "signed"
    /\ \E sym \in FlipChars :
         \/ /\ IsPresigned(sreq)
            /\ \E i \in 1..Len(ParamGet(sreq.url.searchParams, <<"X-Amz-Date">>)) :
                 /\ ParamGet(sreq.url.searchParams, <<"X-Amz-Date">>)[i] # sym
                 /\ sreq' = FlipParam(sreq, <<"X-Amz-Date">>, i, sym)
         \/ /\ ~IsPresigned(sreq)
            /\ \E i \in 1..Len(sreq.headers["x-amz-date"]) :
                 /\ sreq.headers["x-amz-date"][i] # sym
                 /\ sreq' = FlipHeader(sreq, "x-amz-date", i, sym)
    /\ skind' = "timestamp"
    /\ sresult' = VerifyAt(sreq', ENV, sclock)
    /\ UNCHANGED <<sbase, sclock, gatewayVars, driveVars, conf>>

\* One byte of the credential changes.
TamperCredential ==
    /\ skind = "signed"
    /\ \E sym \in FlipChars :
         \/ /\ IsPresigned(sreq)
            /\ \E i \in 1..Len(ParamGet(sreq.url.searchParams, <<"X-Amz-Credential">>)) :
                 /\ ParamGet(sreq.url.searchParams, <<"X-Amz-Credential">>)[i] # sym
                 /\ sreq' = FlipParam(sreq, <<"X-Amz-Credential">>, i, sym)
         \/ /\ ~IsPresigned(sreq)
            /\ \E i \in AuthCredentialPositions(sreq.headers["authorization"]) :
                 /\ sreq.headers["authorization"][i] # sym
                 /\ sreq' = FlipHeader(sreq, "authorization", i, sym)
    /\ skind' = "credential"
    /\ sresult' = VerifyAt(sreq', ENV, sclock)
    /\ UNCHANGED <<sbase, sclock, gatewayVars, driveVars, conf>>

\* Two neighbouring query parameters change places.
ReorderQuery ==
    /\ skind = "signed"
    /\ \E i \in 1..(Len(sreq.url.searchParams) - 1) :
         LET params == sreq.url.searchParams
         IN /\ params[i] # params[i + 1]
            /\ sreq' = [sreq EXCEPT !.url.searchParams =
                           [params EXCEPT ![i] = params[i + 1], ![i + 1] = params[i]]]
    /\ skind' = "reordered"
    /\ sresult' = VerifyAt(sreq', ENV, sclock)
    /\ UNCHANGED <<sbase, sclock, gatewayVars, driveVars, conf>>

\* The algorithm token changes: a byte is put in front of it, or a byte
\* takes its place.
TamperAlgorithm ==
    /\ skind = "signed"
    /\ \E sym \in FlipChars, whole \in BOOLEAN :
         \/ /\ IsPresigned(sreq)
            /\ LET n == ParamIndex(sreq.url.searchParams, <<"X-Amz-Algorithm">>)
               IN sreq' = [sreq EXCEPT !.url.searchParams[n][2] =
                              IF whole THEN <<sym>> ELSE <<sym>> \o @]
         \/ /\ ~IsPresigned(sreq)
            /\ sreq' = [sreq EXCEPT !.headers["authorization"] =
                           IF whole THEN ReplaceAt(@, 1, sym) ELSE <<sym>> \o @]
    /\ skind' = "algorithm"
    /\ sresult' = VerifyAt(sreq', ENV, sclock)
    /\ UNCHANGED <<sbase, sclock, gatewayVars, driveVars, conf>>

\* The timestamp is taken out of the request.
DropTimestamp ==
    /\ skind = "signed"
    /\ \/ /\ IsPresigned(sreq)
          /\ sreq' = [sreq EXCEPT !.url.searchParams =
                         SelectSeq(@, LAMBDA kv : kv[1] # <<"X-Amz-Date">>)]
       \/ /\ ~IsPresigned(sreq)
          /\ sreq' = [sreq EXCEPT !.headers =
                         [h \in DOMAIN @ \ {"x-amz-date"} |-> @[h]]]
    /\ skind' = "undated"
    /\ sresult' = VerifyAt(sreq', ENV, sclock)
    /\ UNCHANGED <<sbase, sclock, gatewayVars, driveVars, conf>>

\* A byte is added at the end of the Authorization header, whose last field
\* is the signature.
PadSignature ==
    /\ skind = "signed"
    /\ ~IsPresigned(sreq)
    /\ \E sym \in FlipChars :
         sreq' = [sreq EXCEPT !.headers["authorization"] = Append(@, sym)]
    /\ skind' = "padded"
    /\ sresult' = VerifyAt(sreq', ENV, sclock)
    /\ UNCHANGED <<sbase, sclock, gatewayVars, driveVars, conf>>

\* A day passes and the request, as it was signed, is presented again.
Replay ==
    /\ skind \in {"signed", "replayed"}
    /\ sclock < MaxClock
    /\ sclock' = sclock + 1
    /\ skind' = "replayed"
    /\ sresult' = VerifyAt(sreq, ENV, sclock')
    /\ UNCHANGED <<sbase, sreq, gatewayVars, driveVars, conf>>

NextSig ==
    \/ TamperSignature
    \/ TamperTimestamp
    \/ TamperCredential
    \/ ReorderQuery
    \/ TamperAlgorithm
    \/ DropTimestamp
    \/ PadSignature
    \/ Replay

SpecSig == InitSig /\ [][NextSig]_vars

\* C3: every request signed with Signature V4 under the configured secret
\* and region, in the Authorization header or in the query string, is accepted
\* by verifySignature.
C3_SignedAccepted == skind = "signed" => sresult = TRUE

\* C4: a signed request in which one byte of the credential (the Credential
\* field of Authorization, or X-Amz-Credential) was changed is rejected.
C4_CredentialBound == skind = "credential" => sresult = FALSE

\* C5: a signed request in which one byte of the supplied signature or of the
\* timestamp (x-amz-date, or X-Amz-Date) was changed is rejected.
C5_SignatureAndTimestampBound ==
    skind \in {"signature", "timestamp"} => sresult = FALSE

\* A request the gateway accepted as signed is rejected once a byte of its
\* timestamp header changed.
C5_Witness ==
    /\ skind = "timestamp"
    /\ ~IsPresigned(sreq)
    /\ verifySignature(sbase, ENV)
    /\ sresult = FALSE

(***************************************************************************)
(* Properties of the gateway                                               *)
(***************************************************************************)

\* The symbols of a sequence.
Range(seq) == {seq[i] : i \in 1..Len(seq)}

\* The first non-empty segment of the path of a request (<<>> when none).
FirstSegment(request) ==
    LET segments == SelectSeq(request.url.pathname, LAMBDA sym : sym # "/")
    IN IF segments = <<>> THEN <<>> ELSE <<segments[1]>>

\* The buckets ENV.ALLOWED_BUCKETS lists.
Listed == {<<"tb">>, <<"eb">>}

\* The path of a request without its leading "/": bucket, "/", key.
ObjectId(pathname) == SubSeq(pathname, 2, Len(pathname))

\* C1: a request other than OPTIONS whose bucket is not on the allow-list is
\* answered 403 "Access denied to this bucket" after the allow-list check
\* alone: no signature verification, no cache or backend call.
C1_DeniedBeforeVerification ==
    \A p \in Procs :
        (req[p].method \notin {"NONE", "OPTIONS"} /\ FirstSegment(req[p]) \notin Listed)
        => /\ pc[p] = "done"
           /\ resp[p] = Response(403, <<"Access denied to this bucket">>, {})
           /\ trace[p] = <<"allow">>

\* A correctly signed GET of an object of a bucket off the list was denied.
C1_Witness ==
    \E p \in Procs :
        /\ pc[p] = "done"
        /\ req[p].method = "GET"
        /\ auth[p] = "header"
        /\ req[p].url.pathname = <<"/", "fb", "/", "k1">>
        /\ resp[p].status = 403

\* C2: a PUT, GET, HEAD, DELETE or listing on an allowed bucket whose
\* signature is missing or wrong is answered 403 and never reaches B2.
C2_NoBackendWithoutSignature ==
    \A p \in Procs :
        ( /\ req[p].method \in {"PUT", "GET", "HEAD", "DELETE"}
          /\ FirstSegment(req[p]) \in Listed
          /\ auth[p] \in {"forged", "none"} )
        => /\ pc[p] = "done"
           /\ resp[p].status = 403
           /\ "b2" \notin Range(trace[p])
           /\ "lookup" \notin Range(trace[p])
           /\ "invalidate" \notin Range(trace[p])

\* A PUT with a wrong signature was rejected while another request had
\* already been served by B2.
C2_Witness ==
    \E p, q \in Procs :
        /\ pc[p] = "done"
        /\ req[p].method = "PUT"
        /\ auth[p] = "forged"
        /\ req[p].url.pathname = <<"/", "tb", "/", "k1">>
        /\ resp[p].status = 403
        /\ "b2" \in Range(trace[q])

\* C6: a GET of a key for which some earlier GET's cache write completed,
\* with no PUT or DELETE of the key between that GET and this one, returns
\* that GET's status, body and headers and makes no backend call.
C6_SecondGetFromCache ==
    \A p \in Procs :
        (pc[p] = "done" /\ req[p].method = "GET" /\ obs[p].looked /\ obs[p].fresh # {})
        => /\ \A first \in obs[p].fresh : resp[p] = first
           /\ "b2" \notin Range(trace[p])

\* C7: the first GET of a key started after a PUT or DELETE of that key
\* completed is answered by a backend fetch, not from the cache.
C7_GetAfterMutationFetches ==
    \A p \in Procs :
        (pc[p] = "done" /\ req[p].method = "GET" /\ obs[p].looked /\ obs[p].owed)
        => ~obs[p].hit /\ "b2" \in Range(trace[p])

\* C8: no GET or HEAD that found no cache write of its key in flight is
\* answered from a cache entry read before a completed PUT or DELETE of the key.
C8_NoStaleHitOnceQuiet ==
    \A p \in Procs :
        (pc[p] = "done" /\ obs[p].looked /\ obs[p].hit /\ obs[p].quiet) => ~obs[p].stale

\* C9: the cache key a GET or HEAD uses, and the key a cache write stores
\* under, is the bucket and object key of its request: requests for one
\* object use one key whatever their authentication, requests for different
\* objects use different keys, and the cache holds no other key.
C9_KeyIsBucketAndKey ==
    /\ \A p \in Procs : obs[p].looked => obs[p].key = ObjectId(req[p].url.pathname)
    /\ \A w \in writes : w.key = ObjectId(w.path)
    /\ \A p, q \in Procs :
         (obs[p].looked /\ obs[q].looked)
         => (obs[p].key = obs[q].key <=> req[p].url.pathname = req[q].url.pathname)
    /\ DOMAIN cache \subseteq {<<"tb", "/", "k1">>, <<"tb", "/", "k2">>}

\* A header-signed GET filled the entry from B2, a presigned GET of the same
\* object was answered from it, and the entries of both objects are held.
C9_Witness ==
    /\ \E p, q \in Procs :
         /\ auth[p] = "header" /\ auth[q] = "query"
         /\ req[p].method = "GET" /\ req[q].method = "GET"
         /\ req[p].url.pathname = req[q].url.pathname
         /\ "b2" \in Range(trace[p]) /\ resp[p].status = 200
         /\ pc[q] = "done" /\ obs[q].hit /\ resp[q] = resp[p]
    /\ DOMAIN cache = {<<"tb", "/", "k1">>, <<"tb", "/", "k2">>}

\* C11: a GET of a key whose last mutation is a PUT that succeeded, started
\* when no PUT or DELETE of the key was under way and answered before another
\* one started, returns 200 with the body and the Content-Type of that PUT
\* (unless B2 failed the GET's own call).
C11_PutThenGet ==
    \A p \in Procs :
        ( /\ pc[p] = "done" /\ req[p].method = "GET" /\ obs[p].looked
          /\ obs[p].last.kind = "put" /\ back[p].status # 500 )
        => /\ resp[p].status = 200
           /\ resp[p].body = obs[p].last.body
           /\ ResponseHeader(resp[p], "Content-Type") = obs[p].last.contentType

\* C12: a GET of a key whose last mutation is a DELETE that succeeded after a
\* PUT that succeeded, started when no PUT or DELETE of the key was under way
\* and answered before another one started, returns 404 "NoSuchKey" (unless
\* B2 failed the GET's own call).
C12_PutDeleteThenGet ==
    \A p \in Procs :
        ( /\ pc[p] = "done" /\ req[p].method = "GET" /\ obs[p].looked
          /\ obs[p].last.kind = "delete" /\ obs[p].last.afterPut
          /\ back[p].status # 500 )
        => resp[p] = Response(404, <<"NoSuchKey">>, {})

\* C10: a HEAD of a key for which some earlier GET's cache write completed,
\* with no PUT or DELETE of the key between that GET and this HEAD, is
\* answered 200 without a body, with that GET's Content-Type, Content-Length
\* and ETag, and without a backend call.
C10_HeadFromCachedGet ==
    \A p \in Procs :
        (pc[p] = "done" /\ req[p].method = "HEAD" /\ obs[p].looked /\ obs[p].fresh # {})
        => /\ resp[p].status = 200
           /\ resp[p].body = <<>>
           /\ \A first \in obs[p].fresh :
                \A name \in {"Content-Type", "Content-Length", "ETag"} :
                    ResponseHeader(resp[p], name) = ResponseHeader(first, name)
           /\ "b2" \notin Range(trace[p])

\* The segments of the path of a request.
Segments(request) == SelectSeq(request.url.pathname, LAMBDA sym : sym # "/")

\* The client signed the request of handler p correctly, and its bucket is on
\* the allow-list.
Admitted(p) == auth[p] \in {"header", "query"} /\ FirstSegment(req[p]) \in Listed

\* Handler p made no cache or backend call.
NoCalls(p) == Range(trace[p]) \cap {"b2", "lookup", "invalidate"} = {}

\* C13: when B2 answers 404 to the call of an authenticated GET, HEAD or
\* DELETE of an object, the GET is answered 404 "NoSuchKey" and the HEAD or
\* DELETE 404 without a body.
C13_NotFoundIs404 ==
    \A p \in Procs :
        (pc[p] = "done" /\ back[p].status = 404)
        => /\ req[p].method = "GET" => resp[p] = Response(404, <<"NoSuchKey">>, {})
           /\ req[p].method \in {"HEAD", "DELETE"} => resp[p] = Response(404, <<>>, {})
           /\ req[p].method \in {"GET", "HEAD", "DELETE"}

\* A GET and a DELETE of an object B2 does not hold were both answered 404.
C13_Witness ==
    \E p, q \in Procs :
        /\ pc[p] = "done" /\ req[p].method = "GET" /\ back[p].status = 404
        /\ resp[p].body = <<"NoSuchKey">>
        /\ pc[q] = "done" /\ req[q].method = "DELETE" /\ back[q].status = 404
        /\ resp[q].status = 404

\* C14: an authenticated PUT, DELETE or HEAD on an allowed bucket whose path
\* has no object key is answered 400 without any cache or backend call.
C14_KeyRequired ==
    \A p \in Procs :
        ( /\ req[p].method \in {"PUT", "DELETE", "HEAD"}
          /\ Admitted(p) /\ Len(Segments(req[p])) = 1 )
        => /\ pc[p] = "done"
           /\ resp[p].status = 400
           /\ NoCalls(p)

\* A presigned DELETE of "/tb/" and a header-signed PUT of "/tb" were refused.
C14_Witness ==
    \E p, q \in Procs :
        /\ req[p].method = "DELETE" /\ auth[p] = "query"
        /\ req[p].url.pathname = <<"/", "tb", "/">> /\ resp[p].status = 400
        /\ req[q].method = "PUT" /\ auth[q] = "header"
        /\ req[q].url.pathname = <<"/", "tb">> /\ resp[q].status = 400

\* C15 as claimed: an authenticated request on an allowed bucket whose method
\* is none of PUT, GET, HEAD, DELETE and OPTIONS is answered 405 without any
\* backend call.
C15_OtherMethods405 ==
    \A p \in Procs :
        ( /\ req[p].method \notin {"PUT", "GET", "HEAD", "DELETE", "OPTIONS", "NONE"}
          /\ Admitted(p) )
        => /\ pc[p] = "done"
           /\ resp[p].status = 405
           /\ NoCalls(p)

\* C15 amended: an authenticated request on an allowed bucket whose method is
\* none of PUT, POST, GET, HEAD, DELETE and OPTIONS is answered 405 "Method
\* not allowed" without any cache or backend call, and a POST is handled as
\* the PUT of the same path: 400 without a key, an upload with one.
C15_OtherMethods405ButPost ==
    \A p \in Procs :
        Admitted(p) =>
          /\ req[p].method \notin {"PUT", "POST", "GET", "HEAD", "DELETE", "OPTIONS", "NONE"}
               => /\ pc[p] = "done"
                  /\ resp[p] = Response(405, <<"Method not allowed">>, {})
                  /\ NoCalls(p)
          /\ req[p].method = "POST"
               => IF Len(Segments(req[p])) = 1
                  THEN pc[p] = "done" /\ resp[p].status = 400 /\ NoCalls(p)
                  ELSE op[p] = "upload" /\ (pc[p] = "done" => resp[p].status \in {200, 500})

\* A signed PATCH of an object was answered 405 and a signed POST of it
\* uploaded it.
C15_Witness ==
    \E p, q \in Procs :
        /\ pc[p] = "done" /\ req[p].method = "PATCH" /\ auth[p] = "header"
        /\ req[p].url.pathname = <<"/", "tb", "/", "k1">> /\ resp[p].status = 405
        /\ pc[q] = "done" /\ req[q].method = "POST" /\ auth[q] = "header"
        /\ resp[q].status = 200 /\ "b2" \in Range(trace[q])
        /\ objects[<<"tb", "/", "k1">>].body = <<"three">>

\* C16: an OPTIONS request, whatever its path, bucket and authentication, is
\* answered 204 without a body, with no allow-list check, no signature
\* verification and no cache or backend call.
C16_OptionsImmediate ==
    \A p \in Procs :
        req[p].method = "OPTIONS"
        => /\ pc[p] = "done"
           /\ resp[p] = Response(204, <<>>, {})
           /\ trace[p] = <<>>

\* An unsigned OPTIONS for a bucket off the allow-list was answered 204.
C16_Witness ==
    \E p \in Procs :
        /\ pc[p] = "done" /\ req[p].method = "OPTIONS" /\ auth[p] = "none"
        /\ req[p].url.pathname = <<"/", "fb", "/", "k1">>
        /\ resp[p].status = 204

\* The statuses the handler answers with.
Statuses == {200, 204, 400, 403, 404, 405, 500}

\* C17: a handler that finished returned a response; when its backend call
\* threw an error that is not a not-found answer, the response is 500 with
\* the message of the error as its body.
C17_ErrorsBecome500 ==
    \A p \in Procs :
        pc[p] = "done"
        => /\ resp[p].status \in Statuses
           /\ (back[p].error # <<>> /\ back[p].status # 404)
                => resp[p] = Response(500, back[p].error, {})

\* A GET that B2 failed was answered 500 "Download failed: 500", and a PUT
\* without a body 500 "Request body is required".
C17_Witness ==
    \E p, q \in Procs :
        /\ pc[p] = "done" /\ req[p].method = "GET" /\ back[p].status = 500
        /\ resp[p] = Response(500, <<"Download failed: ", "5", "0", "0">>, {})
        /\ pc[q] = "done" /\ req[q].method = "PUT" /\ back[q].status = 0
        /\ resp[q] = Response(500, <<"Request body is required">>, {})

\* How many Contents elements a listing has.
ContentsCount(body) == Cardinality({i \in 1..Len(body) : body[i] = "<Contents>"})

\* The keys a listing names, one for each Key element.
ListedKeys(body) == {body[i + 1] : i \in {j \in 1..(Len(body) - 1) : body[j] = "<Key>"}}

\* The keys of the objects B2 holds in the bucket of a request.
HeldKeys(request) ==
    {q[Len(q)] : q \in {o \in DOMAIN objects : <<o[1]>> = FirstSegment(request)}}

\* Handler p handles an authenticated GET of an allowed bucket without a key.
ListingRequest(p) ==
    req[p].method = "GET" /\ Admitted(p) /\ Len(Segments(req[p])) = 1

\* C18: an authenticated GET on an allowed bucket without an object key is a
\* listing and never a download: it looks no object up, and when B2 answers
\* it returns 200, Content-Type application/xml and a ListBucketResult with
\* exactly one Contents element for each object the bucket holds (none when
\* it holds none).
C18_EmptyKeyIsListing ==
    /\ [](\A p \in Procs :
            ListingRequest(p)
            => /\ op[p] = "list"
               /\ "lookup" \notin Range(trace[p])
               /\ (pc[p] = "done" /\ back[p].status = 200)
                    => /\ resp[p].status = 200
                       /\ resp[p].headers = {<<"Content-Type", <<"application/xml">>>>}
                       /\ resp[p].body[1] = "<ListBucketResult>")
    /\ [][\A p \in Procs :
            (ListingRequest(p) /\ pc[p] = "fetch" /\ pc'[p] = "done" /\ back'[p].status = 200)
            => /\ ContentsCount(resp'[p].body) = Cardinality(HeldKeys(req[p]))
               /\ ListedKeys(resp'[p].body) = HeldKeys(req[p])]_vars

\* After the PUT of a second object, the listing of "/tb/" has two Contents
\* elements, one for each object.
C18_Witness ==
    \E p, q \in Procs :
        /\ pc[p] = "done" /\ req[p].method = "PUT" /\ resp[p].status = 200
        /\ pc[q] = "done" /\ ListingRequest(q)
        /\ req[q].url.pathname = <<"/", "tb", "/">>
        /\ resp[q].status = 200
        /\ ContentsCount(resp[q].body) = 2
        /\ ListedKeys(resp[q].body) = {"k1", "k2"}

(***************************************************************************)
(* Properties of the hierarchical backend                                  *)
(***************************************************************************)

RECURSIVE PathId(_, _)
\* The ID of the n-th folder of a chain of names, walked from the root.
PathId(names, n) ==
    IF n = 0 THEN RootSentinel
    ELSE (CHOOSE f \in folders : f.name = names[n] /\ f.parent = PathId(names, n - 1)).id

\* The folders a, b and c of the keys, under the bucket.
Nested == <<"tb", "a", "b", "c">>

C20_CreationNotSerialized ==
    [][\A p \in Procs :
         /\ ( /\ dpc[p] = "search" /\ dpc'[p] # "search" /\ dreq[p].method = "PUT"
              /\ FindByName(folders, dreq[p].segments[dseg[p] + 1], dparent[p]) = {} )
            => dpc'[p] = "create"
         /\ (dpc[p] = "create" /\ dpc'[p] # "create")
            => /\ Cardinality(folders') = Cardinality(folders) + 1
               /\ [id |-> dfound'[p], name |-> dreq[p].segments[dseg[p] + 1],
                   parent |-> dparent[p]] \in folders' \ folders]_vars

\* Two PUTs each created a folder "a" under the bucket folder: the parent has
\* two folders of that name.
C20_Witness ==
    /\ \A p \in Procs :
         /\ dreq[p].method = "PUT"
         /\ Len(dhist[p].created) >= 1
         /\ dhist[p].created[1] = "a" /\ dhist[p].parents[1] = BucketFolderId
    /\ \E f, g \in folders :
         f.id # g.id /\ f.name = "a" /\ g.name = "a"
           /\ f.parent = BucketFolderId /\ g.parent = BucketFolderId

(***************************************************************************)
(* Properties of the order of the checks and of the cache                  *)
(***************************************************************************)

\* Whether the request of handler p did not pass the allow-list check and the
\* signature verification.
Rejected(p) == auth[p] \in {"forged", "none"} \/ FirstSegment(req[p]) \notin Listed

\* C21: a GET or HEAD whose signature is invalid, or whose bucket is not on
\* the allow-list, is answered 403 without a cache lookup, also when the cache
\* holds an entry for its bucket and key: the response is not the cached one.
C21_CacheBehindChecks ==
    \A p \in Procs :
        (req[p].method \in {"GET", "HEAD"} /\ Rejected(p))
        => /\ pc[p] = "done"
           /\ resp[p].status = 403
           /\ resp[p].body \in {<<"Access denied to this bucket">>, <<"Invalid Signature">>}
           /\ "lookup" \notin Range(trace[p])
           /\ ~obs[p].looked

\* A GET with a wrong signature was answered 403 while the cache held the
\* entry that a signed GET of the same key had stored.
C21_Witness ==
    \E p, q \in Procs :
        /\ pc[p] = "done" /\ req[p].method = "GET" /\ auth[p] = "forged"
        /\ req[p].url.pathname = <<"/", "tb", "/", "k1">>
        /\ obs[p].hit /\ resp[p].status = 403
        /\ pc[q] = "done" /\ req[q].method = "GET" /\ auth[q] = "header"
        /\ req[q].url.pathname = <<"/", "tb", "/", "k1">>
        /\ resp[q].status = 200

\* C22: a PUT or DELETE drops the cache entry of its key before its backend
\* call completes, and whatever that call answers: when the PUT or DELETE ends
\* in 404 or 500, the cache holds no entry for the key.
C22_InvalidatedWhateverOutcome ==
    [][\A p \in Procs :
         /\ (pc[p] = "invalidate" /\ pc'[p] = "fetch")
              => CacheKey(req[p]) \notin DOMAIN cache'
         /\ ( /\ pc[p] = "fetch" /\ pc'[p] = "done"
              /\ op[p] \in {"upload", "delete"}
              /\ resp'[p].status \in {404, 500} )
              => CacheKey(req[p]) \notin DOMAIN cache']_vars

\* C23: a cache entry is created only by a successful (2xx) GET of an object:
\* every cache write that is started carries the 2xx response that a GET of
\* an object has just fetched, under the key of that GET, and every entry that
\* appears or changes in the cache is such a write.  A GET that ends in 404 or
\* 500, a HEAD, a PUT, a DELETE, a listing and a rejected request start none.
C23_OnlySuccessfulGetStores ==
    [][ /\ \A w \in writes' \ writes :
             /\ w.response.status \in 200..299
             /\ \E p \in Procs :
                  /\ pc[p] = "fetch" /\ pc'[p] = "done"
                  /\ req[p].method = "GET" /\ ObjectKeyOf(req[p].url) # <<>>
                  /\ resp'[p] = w.response
                  /\ w.key = CacheKey(req[p])
        /\ \A k \in DOMAIN cache' :
             (k \notin DOMAIN cache \/ cache'[k] # cache[k])
             => \E w \in writes : w.key = k /\ w.response = cache'[k] ]_vars

\* The GET of an object ended in 404 and left no entry, while the cache holds
\* the entry that a successful GET of another object stored.
C23_Witness ==
    \E p, q \in Procs :
        /\ pc[p] = "done" /\ req[p].method = "GET" /\ resp[p].status = 404
        /\ "b2" \in Range(trace[p])
        /\ CacheKey(req[p]) \notin DOMAIN cache
        /\ pc[q] = "done" /\ req[q].method = "GET" /\ resp[q].status = 200
        /\ CacheKey(req[q]) \in DOMAIN cache
        /\ cache[CacheKey(req[q])] = resp[q]
        /\ writes = {}

(***************************************************************************)
(* Properties of verifySignature and createCanonicalRequest                *)
(***************************************************************************)

\* C24: two requests that differ only in the order of their query parameters
\* have the same canonical request, also when a key occurs twice with
\* different values.
C24_CanonicalIgnoresOrder ==
    skind = "reordered"
    => createCanonicalRequest(sreq, IsPresigned(sreq))
         = createCanonicalRequest(sbase, IsPresigned(sbase))

\* C25: verifySignature returns false when the algorithm token is not
\* AWS4-HMAC-SHA256 and when the timestamp is absent.
C25_AlgorithmAndTimestampRequired ==
    skind \in {"algorithm", "undated"} => sresult = FALSE

\* C26: with header authentication, a request whose Signature field is the
\* correct signature followed by a further character is rejected.
C26_WholeSignatureCompared == skind = "padded" => sresult = FALSE

NamesNoBucket(value) ==
    value = Null \/ \A i \in 1..Len(value) : value[i] \in Whitespace \cup {","}

\* C30: when ALLOWED_BUCKETS is unset, empty or holds only blank entries,
\* every request other than OPTIONS is answered 403 "Access denied to this
\* bucket"; and under every configuration so is a request whose path names no
\* bucket.  Nothing but the allow-list check ran for it.
C30_DenyByDefault ==
    \A p \in Procs :
        ( /\ req[p].method \notin {"NONE", "OPTIONS"}
          /\ (NamesNoBucket(conf) \/ FirstSegment(req[p]) = <<>>) )
        => /\ pc[p] = "done"
           /\ resp[p] = Response(403, <<"Access denied to this bucket">>, {})
           /\ trace[p] = <<"allow">>

\* Under a list of blank entries a correctly signed GET of an object was
\* denied, and so was a correctly signed GET of the path "/".
C30_Witness ==
    \E p, q \in Procs :
        /\ conf = <<" ", ",", " ">>
        /\ pc[p] = "done" /\ req[p].method = "GET" /\ auth[p] = "header"
        /\ req[p].url.pathname = <<"/", "tb", "/", "k1">>
        /\ resp[p].status = 403
        /\ pc[q] = "done" /\ req[q].method = "GET" /\ auth[q] = "header"
        /\ req[q].url.pathname = <<"/">>
        /\ resp[q].status = 403

(***************************************************************************)
(* Properties of the read operations of the hierarchical backend           *)
(***************************************************************************)

\* Whether the step is one of handler p.
StepOf(p) == <<dpc[p], dseg[p]>> # <<dpc'[p], dseg'[p]>>

\* Whether the step is the search of a read operation (get, head, delete,
\* list) of handler p that found no folder of the name under the parent.
MissedFolder(p) ==
    /\ dpc[p] = "search" /\ dpc'[p] # "search"
    /\ dreq[p].method \in {"GET", "HEAD", "DELETE", "LIST"}
    /\ FindByName(folders, dreq[p].segments[dseg[p] + 1], dparent[p]) = {}

\* C28: get, head, delete and list never create a folder; when a folder of
\* the path is missing, get, head and delete end not-found and list ends with
\* an empty listing; and no step of theirs changes the folders or the
\* FolderResolutionCache.
C28_ReadsChangeNeither ==
    [][\A p \in Procs :
         /\ (StepOf(p) /\ dreq'[p].method \in {"GET", "HEAD", "DELETE", "LIST"})
            => folders' = folders /\ fcache' = fcache
         /\ MissedFolder(p)
            => /\ dpc'[p] = "done"
               /\ dresp'[p] = IF dreq[p].method = "LIST" THEN 200 ELSE 404
               /\ dhist'[p].listing = {}]_vars

\* C28 as the backend has it: get, head, delete and list never create a
\* folder and leave the folders unchanged; when a folder of the path is
\* missing, get, head and delete end not-found and list ends with an empty
\* listing; the only change of theirs to the FolderResolutionCache is the
\* entry of a folder that their search found, under the key that ends in its
\* name and with its ID, and none when the first folder is missing.
C28_ReadsCacheOnlyFound ==
    [][\A p \in Procs :
         /\ (StepOf(p) /\ dreq'[p].method \in {"GET", "HEAD", "DELETE", "LIST"})
            => /\ folders' = folders
               /\ \A key \in DOMAIN fcache' :
                    (key \notin DOMAIN fcache \/ fcache'[key] # fcache[key])
                    => /\ dpc[p] = "store"
                       /\ key = FolderCacheKey(dreq[p].segments, dseg'[p])
                       /\ \E f \in folders :
                            f.id = fcache'[key] /\ f.name = key[Len(key)]
               /\ DOMAIN fcache \subseteq DOMAIN fcache'
         /\ MissedFolder(p)
            => /\ dpc'[p] = "done"
               /\ dresp'[p] = IF dreq[p].method = "LIST" THEN 200 ELSE 404
               /\ dhist'[p].listing = {}
               /\ fcache' = fcache]_vars

\* With only the bucket folder tb in the backend, a GET under tb/a/b/c ended
\* not-found after caching tb, and the listing of the bucket eb, which has no
\* folder, ended with an empty listing; no folder was created.
C28_Witness ==
    \E p, q \in Procs :
        /\ dpc[p] = "done" /\ dreq[p].method = "GET" /\ dresp[p] = 404
        /\ dpc[q] = "done" /\ dreq[q] = [method |-> "LIST", segments |-> <<"eb", "">>]
        /\ dresp[q] = 200 /\ dhist[q].listing = {}
        /\ folders = {[id |-> BucketFolderId, name |-> "tb", parent |-> RootSentinel]}
        /\ DOMAIN fcache = {<<"tb">>}
        /\ files = {}

====
